---------------------------- MODULE Spec2Model ----------------------------
(***************************************************************************)
(* R-tree pipeline of the repository: the bulk loader                      *)
(* (r_tree_bulk_loading.cpp), the tree file Rtree.txt it writes, and the   *)
(* two query engines (range_queries.cpp, k_nearest_neighbors.cpp) that     *)
(* re-read that file.                                                      *)
(*                                                                         *)
(* Numbers.  A C++ double coordinate is modelled by an exact integer count *)
(* of 10^-7 (one digit below the 6 decimals that MBR::toString prints), so *)
(* 1.0 is 10000000.  Comparisons, min and max are exact on such values;    *)
(* sqrt is monotone, so min_dist is carried as the exact squared distance. *)
(* Text.  A line of Rtree.txt is a sequence of one-character strings.      *)
(* Memory.  A shared_ptr is an index ("ref") into a sequence of node       *)
(* records; Null is the null pointer.                                      *)
(* Node classes.  The loader includes LeafNode.h, the engines Node.h; the  *)
(* classes and helpers of Node.h (MBR, InternalNode, toString,             *)
(* update_parent_mbr, recompute_node_mbr) are used for both, LeafNode      *)
(* being the loader's name of the class Node.                              *)
(*                                                                         *)
(* Three more programs of the repository follow the R-tree pipeline, each  *)
(* with a specification of its own: the containment queries                *)
(* (SpecContainment), the relevance queries with TRF weights               *)
(* (SpecRelevance) and the difference of two sorted files (SpecDifference).*)
(* While one program runs, the variables of the others stay at rest.       *)
(***************************************************************************)
EXTENDS Integers, Sequences, FiniteSets, TLC

VARIABLES
    input,        \* the input files of one loader run: [n, layout]
    pc,           \* position of the running program
    entries,      \* loader: std::vector<Entry> entries
    heap,         \* loader: the node objects, indexed by ref
    nodes,        \* loader: the vector `nodes` of main/build_tree (refs)
    node_id,      \* loader: the counter node_id of build_tree
    outfile,      \* Rtree.txt: sequence of lines
    root,         \* loader: the pointer build_tree returns
    fault,        \* "none", or the undefined behaviour / abort that ended a run
    tree,         \* query engine: node objects built by build_tree_from_file
    troot,        \* query engine: root returned by build_tree_from_file
    k,            \* kNN engine: argv[3]
    query_id,     \* query engine: query_id / line_count
    query,        \* query engine: the query line being processed
    pq,           \* kNN engine: the vector under std::priority_queue
    results,      \* range engine: the vector results of run_range_queries
    kn_leaf_ids,  \* kNN engine: kn_leaf_ids
    popped,       \* kNN engine: refs popped so far in this query, in order
    printed,      \* query engine: the last line written to std::cout
    transactions, \* query processing: the item sets of transactions.txt
    queries,      \* query processing: the item sets of queries.txt
    query_number, \* query processing: argv[3] (-1: every query)
    top_k,        \* relevance queries: argv[5]
    method_results, \* query processing: the vector that run_method fills
    r_sorted,     \* relational operators: the lines of the file R
    s_sorted,     \* relational operators: the lines of the file S
    r_tellg,      \* relational operators: lines of R read so far
    s_tellg,      \* relational operators: lines of S read so far
    r_line,       \* relational operators: the string r_line
    s_line,       \* relational operators: the string s_line
    r_read_succeed, \* relational operators: the last getline on R gave a line
    s_read_succeed, \* relational operators: the last getline on S gave a line
    last_written_record, \* relational operators: the string last_written_record
    r_difference_s, \* relational operators: the lines of RdifferenceS.tsv
    r_union_s     \* relational operators: the lines of RunionS.tsv

\* the state of the query-processing programs (containment, relevance)
queryVars == <<transactions, queries, query_number, top_k, method_results>>

\* the state of the relational operators
relationalVars == <<r_sorted, s_sorted, r_tellg, s_tellg, r_line, s_line,
                    r_read_succeed, s_read_succeed, last_written_record,
                    r_difference_s, r_union_s>>

\* the state of the R-tree programs, pc and fault apart
rtreeVars == <<input, entries, heap, nodes, node_id, outfile, root,
               tree, troot, k, query_id, query, pq, results, kn_leaf_ids, popped,
               printed>>

vars == <<input, pc, entries, heap, nodes, node_id, outfile, root, fault,
          tree, troot, k, query_id, query, pq, results, kn_leaf_ids, popped,
          printed, queryVars, relationalVars>>

Null == 0

-----------------------------------------------------------------------------
(* Bounds of the model *)

\* entry counts 0..MaxEntries are explored
MaxEntries == 41
\* entry counts of the layout with 7-decimal coordinates: 0..MaxFine
MaxFine == 23
\* entry counts MAX^2+1 .. MAX^2+MaxBigExtra are explored too (three levels)
MaxBigExtra == 1
\* the program argument k ranges over -1..MaxK (and one k above the Leaf count)
MaxK == 2
\* number of query lines in a query file
MaxQueries == 2

-----------------------------------------------------------------------------
(* Program constants *)

MAX_CHILDREN_PER_NODE == 20
MIN_CHILDREN_PER_NODE == 8
\* std::setprecision(6) with std::fixed in MBR::toString
PRECISION == 6

-----------------------------------------------------------------------------
(* Small arithmetic and sequence helpers *)

Abs(x) == IF x < 0 THEN -x ELSE x
Min2(a, b) == IF b < a THEN b ELSE a      \* std::min(a, b)
Max2(a, b) == IF a < b THEN b ELSE a      \* std::max(a, b)

RECURSIVE Pow10(_)
Pow10(e) == IF e = 0 THEN 1 ELSE 10 * Pow10(e - 1)

\* one unit of 1.0 in model units (10^-(PRECISION+1))
One == Pow10(PRECISION + 1)

Last(s) == s[Len(s)]
Front(s) == SubSeq(s, 1, Len(s) - 1)

\* concatenation of a sequence of sequences, balanced so that the evaluation
\* depth is logarithmic
RECURSIVE ConcatRange(_, _, _)
ConcatRange(ss, lo, hi) ==
    IF lo > hi THEN <<>>
    ELSE IF lo = hi THEN ss[lo]
    ELSE LET mid == (lo + hi) \div 2
         IN ConcatRange(ss, lo, mid) \o ConcatRange(ss, mid + 1, hi)

Concat(ss) == ConcatRange(ss, 1, Len(ss))

\* the sequence s with every element evaluated (a sequence written as
\* [i \in 1..n |-> e] is otherwise re-evaluated at each use)
Eager(s) == <<>> \o s

\* the set of elements of a sequence
Range(f) == { f[i] : i \in DOMAIN f }

SetMin(S) == CHOOSE m \in S : \A x \in S : m <= x
SetMax(S) == CHOOSE m \in S : \A x \in S : x <= m

\* TRUE.  Evaluating it evaluates v: an operator's argument is otherwise
\* evaluated where it is first used, which nests the iterations of a long loop.
Strict(v) == DOMAIN v = DOMAIN v

\* the value kept as a signed int
kept_signed(x) == x

\* size_t arithmetic: the result of an unsigned subtraction wraps.  size_t is
\* 64 bits wide; the model keeps 30 bits, which already exceeds every vector
\* length that occurs.
SizeT(x) == x % (2 ^ 30)


-----------------------------------------------------------------------------
(* Text: what operator<< writes and what extract_numbers, stoi, stod read *)

DIGITS == <<"0", "1", "2", "3", "4", "5", "6", "7", "8", "9">>
DigitChar(d) == DIGITS[d + 1]
isdigit(c) == c \in {"0", "1", "2", "3", "4", "5", "6", "7", "8", "9"}
DigitVal(c) == CHOOSE d \in 0..9 : DIGITS[d + 1] = c

\* decimal digits of a natural number, most significant first
RECURSIVE DigitsOf(_)
DigitsOf(n) ==
    IF n < 10 THEN <<DigitChar(n)>>
    ELSE Append(DigitsOf(n \div 10), DigitChar(n % 10))

\* oss << int
IntToString(i) == IF i < 0 THEN <<"-">> \o DigitsOf(-i) ELSE DigitsOf(i)

\* oss << std::fixed << std::setprecision(6) << double.  The value is rounded
\* to the nearest multiple of 10^-6 (a tie, which needs the 7th decimal to be
\* exactly 5, goes to the even neighbour); the sign is written also when the
\* rounded magnitude is zero.
FixedToString(v) ==
    LET a == Abs(v)
        q == a \div 10
        d == a % 10
        r == IF d > 5 \/ (d = 5 /\ q % 2 = 1) THEN q + 1 ELSE q
        scale == Pow10(PRECISION)
        frac == r % scale
    IN  (IF v < 0 THEN <<"-">> ELSE <<>>)
        \o DigitsOf(r \div scale) \o <<".">>
        \o [i \in 1..PRECISION |-> DigitChar((frac \div Pow10(PRECISION - i)) % 10)]

\* MBR::toString: "[x_low, x_high, y_low, y_high]"
MBR_toString(mbr) ==
    <<"[">> \o FixedToString(mbr.x_low) \o <<",", " ">>
            \o FixedToString(mbr.x_high) \o <<",", " ">>
            \o FixedToString(mbr.y_low) \o <<",", " ">>
            \o FixedToString(mbr.y_high) \o <<"]">>

\* the text written for one child inside InternalNode::toString
Child_toString(h, c) ==
    <<"[">> \o IntToString(h[c].node_id) \o <<",", " ">>
            \o MBR_toString(h[c].mbr) \o <<"]">>

\* InternalNode::toString of the node at ref r of memory h
InternalNode_toString(h, r) ==
    LET n == h[r]
        cs == n.children
    IN  <<"[", (IF n.children_are_leafs THEN "0" ELSE "1"), ",", " ">>
        \o IntToString(n.node_id) \o <<",", " ", "[">>
        \o Concat([i \in 1..Len(cs) |->
                     Child_toString(h, cs[i])
                     \o (IF i # Len(cs) THEN <<",", " ">> ELSE <<>>)])
        \o <<"]", "]">>

\* one iteration of the for loop of extract_numbers; st = [numbers, curr]
ExtractStep(line, st, i) ==
    IF \/ isdigit(line[i])
       \/ (line[i] = "-" /\ (i = 1 \/ ~isdigit(line[i - 1])))
       \/ (line[i] = "." /\ st.curr # <<>> /\ isdigit(Last(st.curr)))
    THEN [st EXCEPT !.curr = Append(st.curr, line[i])]
    ELSE IF st.curr # <<>>
         THEN [numbers |-> Append(st.numbers, st.curr), curr |-> <<>>]
         ELSE st

\* iterations lo..hi of that loop, in order
RECURSIVE ExtractLoop(_, _, _, _)
ExtractLoop(line, st, lo, hi) ==
    IF Strict(st) /\ lo > hi THEN st
    ELSE IF lo = hi THEN ExtractStep(line, st, lo)
    ELSE LET mid == (lo + hi) \div 2
         IN ExtractLoop(line, ExtractLoop(line, st, lo, mid), mid + 1, hi)

extract_numbers(line) ==
    LET st == ExtractLoop(line, [numbers |-> <<>>, curr |-> <<>>], 1, Len(line))
    IN  IF st.curr # <<>> THEN Append(st.numbers, st.curr) ELSE st.numbers

\* value of a run of digit characters
RECURSIVE DigitsValue(_)
DigitsValue(ds) ==
    IF ds = <<>> THEN 0 ELSE 10 * DigitsValue(Front(ds)) + DigitVal(Last(ds))

\* length of the longest prefix of s from position i that consists of digits
RECURSIVE DigitRun(_, _)
DigitRun(s, i) == IF i <= Len(s) /\ isdigit(s[i]) THEN 1 + DigitRun(s, i + 1) ELSE 0

\* std::stoi / std::stod accept a token that starts with an optional '-' and
\* at least one digit; any other token makes them throw std::invalid_argument
IsNumberToken(tok) ==
    LET s == IF tok # <<>> /\ tok[1] = "-" THEN 2 ELSE 1
    IN  DigitRun(tok, s) > 0

\* std::stoi: optional sign, then the longest run of digits
stoi(tok) ==
    LET neg == tok[1] = "-"
        s == IF neg THEN 2 ELSE 1
        v == DigitsValue(SubSeq(tok, s, s + DigitRun(tok, s) - 1))
    IN  IF neg THEN -v ELSE v

\* std::stod: optional sign, digits, optionally '.' and digits.  The result
\* is in model units, so decimals after the 7th are not represented.
stod(tok) ==
    LET neg == tok[1] = "-"
        s == IF neg THEN 2 ELSE 1
        ni == DigitRun(tok, s)
        ip == DigitsValue(SubSeq(tok, s, s + ni - 1))
        dot == s + ni
        nf == IF dot <= Len(tok) /\ tok[dot] = "." THEN DigitRun(tok, dot + 1) ELSE 0
        kept == Min2(nf, PRECISION + 1)
        fp == DigitsValue(SubSeq(tok, dot + 1, dot + kept)) * Pow10(PRECISION + 1 - kept)
        v == ip * One + fp
    IN  IF neg THEN -v ELSE v

-----------------------------------------------------------------------------
(* Geometry *)

\* MBR(xLow, yLow, xHigh, yHigh)
MBR(xLow, yLow, xHigh, yHigh) ==
    [x_low |-> xLow, y_low |-> yLow, x_high |-> xHigh, y_high |-> yHigh]

update_parent_mbr(parent_mbr, child_mbr) ==
    [x_low  |-> Min2(parent_mbr.x_low, child_mbr.x_low),
     y_low  |-> Min2(parent_mbr.y_low, child_mbr.y_low),
     x_high |-> Max2(parent_mbr.x_high, child_mbr.x_high),
     y_high |-> Max2(parent_mbr.y_high, child_mbr.y_high)]

\* update_parent_mbr applied for the refs cs[lo..hi], in order, starting at m
RECURSIVE CoverLoop(_, _, _, _, _)
CoverLoop(h, m, cs, lo, hi) ==
    IF lo > hi THEN m
    ELSE IF lo = hi THEN update_parent_mbr(m, h[cs[lo]].mbr)
    ELSE LET mid == (lo + hi) \div 2
         IN CoverLoop(h, CoverLoop(h, m, cs, lo, mid), cs, mid + 1, hi)

\* the mbr of the first child alone
first_child_mbr(h, cs) == h[cs[1]].mbr

\* recompute_node_mbr: the new mbr of a node whose children are cs.  Reading
\* children[0] is undefined behaviour when cs is empty; callers test that.
recompute_node_mbr(h, cs) == CoverLoop(h, h[cs[1]].mbr, cs, 2, Len(cs))

\* overlap of the open rectangles: touching edges do not count
mbr_overlaps_inside(a, b) ==
    IF a.x_high <= b.x_low \/ a.x_low >= b.x_high THEN FALSE
    ELSE IF a.y_high <= b.y_low \/ a.y_low >= b.y_high THEN FALSE
    ELSE TRUE

mbr_intersects(a, b) ==
    IF a.x_high < b.x_low \/ a.x_low > b.x_high THEN FALSE
    ELSE IF a.y_high < b.y_low \/ a.y_low > b.y_high THEN FALSE
    ELSE TRUE

\* dx*dx + dy*dy for 0 <= dx, dy < 10^9 (100.0), exact, as three digits, most
\* significant first (weights 10^9, 10^3, 1; the lower two below 10^6 and
\* 10^3), so that no intermediate value exceeds 31 bits
SquareSum(dx, dy) ==
    LET a1 == dx \div 1000000  b1 == (dx \div 1000) % 1000  c1 == dx % 1000
        a2 == dy \div 1000000  b2 == (dy \div 1000) % 1000  c2 == dy % 1000
        t0 == c1 * c1 + c2 * c2
        t1 == 2 * b1 * c1 + 2 * b2 * c2
        t2 == 2 * a1 * c1 + b1 * b1 + 2 * a2 * c2 + b2 * b2
        t3 == 2 * a1 * b1 + 2 * a2 * b2
        t4 == a1 * a1 + a2 * a2
        u1 == t1 + (t0 \div 1000)
        u2 == t2 + (u1 \div 1000)
        u3 == t3 + (u2 \div 1000)
        u4 == t4 + (u3 \div 1000)
    IN  <<u4 * 1000 + (u3 % 1000),
          (u2 % 1000) * 1000 + (u1 % 1000),
          t0 % 1000>>

\* distance < other.distance on such values
DistLess(d, e) ==
    \/ d[1] < e[1]
    \/ d[1] = e[1] /\ d[2] < e[2]
    \/ d[1] = e[1] /\ d[2] = e[2] /\ d[3] < e[3]

\* the opposite order: the entry with the smaller distance counts as greater
PQSmaller(a, b) == DistLess(a.distance, b.distance)

\* PQEntry::operator>
PQGreater(a, b) == DistLess(b.distance, a.distance)

\* the distance to the farthest corner of the rectangle
max_dist(mbr, qx, qy) ==
    LET dx == IF qx - mbr.x_low > mbr.x_high - qx THEN qx - mbr.x_low ELSE mbr.x_high - qx
        dy == IF qy - mbr.y_low > mbr.y_high - qy THEN qy - mbr.y_low ELSE mbr.y_high - qy
    IN  SquareSum(dx, dy)

\* min_dist; the value returned stands for sqrt(dx*dx + dy*dy)
min_dist(mbr, qx, qy) ==
    LET dx == IF qx < mbr.x_low THEN mbr.x_low - qx
              ELSE IF qx > mbr.x_high THEN qx - mbr.x_high ELSE 0
        dy == IF qy < mbr.y_low THEN mbr.y_low - qy
              ELSE IF qy > mbr.y_high THEN qy - mbr.y_high ELSE 0
    IN  SquareSum(dx, dy)


-----------------------------------------------------------------------------
(* Input files of the loader.  input.n polygons are laid out by a formula  *)
(* per layout; layout 0 is the three-entry scenario of the documentation.  *)

Half == One \div 2

\* number of points of every polygon of a layout
PointsPerPolygon(layout) == IF layout = 2 THEN 3 ELSE 2

\* the points of polygon i (1-based) of a layout, as <<x, y>> pairs
PolygonPoints(layout, i) ==
    IF layout = 0 THEN
        \* 1:[0,0,1,1]  2:[5,5,6,6]  3:[2,2,3,3]   (x_low, y_low, x_high, y_high)
        LET lo == <<0, 5 * One, 2 * One>>[i]
        IN  << <<lo, lo>>, <<lo + One, lo + One>> >>
    ELSE IF layout = 1 THEN
        \* multiples of 0.5, printed exactly
        LET ax == ((i * 7) % 11) * Half
            ay == ((i * 4) % 9) * Half
            w == (i % 3) * Half
            h == ((i + 1) % 2) * Half
        IN  IF i % 2 = 1 THEN << <<ax, ay>>, <<ax + w, ay + h>> >>
            ELSE << <<ax + w, ay>>, <<ax, ay + h>> >>
    ELSE
        \* values with a 7th decimal, some negative, around x = 12.345678
        LET ax == 123456780 + ((i * 5) % 13) * 6 - 32
            ay == ((i * 3) % 7) * 8 - 20
            w == (i % 4) * 4
            h == (i % 2) * 12 + 2
        IN  << <<ax + w, ay + h>>, <<ax + (w \div 2), ay>>, <<ax, ay + (h \div 2)>> >>

\* the id column of offsets.txt
PolygonId(layout, i) == IF layout = 2 THEN 2 - i ELSE i

\* coords.txt as readCoords returns it: one Point per line
CoordsFile(in) ==
    LET p == PointsPerPolygon(in.layout)
    IN  [j \in 1..(in.n * p) |->
            LET pt == PolygonPoints(in.layout, ((j - 1) \div p) + 1)[((j - 1) % p) + 1]
            IN  [x |-> pt[1], y |-> pt[2]]]

\* offsets.txt as readOffsets returns it: 0-based inclusive index ranges.
\* With the damage "end_offset" the last record ends one point past the end
\* of coords.txt.
OffsetsFile(in) ==
    LET p == PointsPerPolygon(in.layout)
    IN  [i \in 1..in.n |->
            [id |-> PolygonId(in.layout, i),
             startOffset |-> (i - 1) * p,
             endOffset |-> IF in.damage = "end_offset" /\ i = in.n
                           THEN i * p ELSE i * p - 1]]

\* z_values.txt as written by the external z_order.py: one key string per
\* line.  Layout 2 gives its first two entries the same key.
ZValuesFile(in) ==
    [i \in 1..in.n |->
        IF in.layout = 2
        THEN (IF i <= 2 THEN <<"7">> ELSE DigitsOf(((i * 53) % 409) + 10))
        ELSE DigitsOf((i * 37) % 409)]

EntryCounts ==
    (0..MaxEntries)
    \cup { MAX_CHILDREN_PER_NODE * MAX_CHILDREN_PER_NODE + j : j \in 1..MaxBigExtra }

\* damages of the tree file between the loader and a query engine (a
\* corrupted or hand-edited Rtree.txt): all lines gone, or the first line gone
TreeFileDamages == {"no_lines", "first_line"}

\* entry counts of the runs with a damaged file: one and two levels
DamagedCounts == {2, MAX_CHILDREN_PER_NODE + 2}

\* a run: the number of polygons, their layout, and the damaged file if any
Inputs ==
    { [n |-> c, layout |-> 1, damage |-> "none"] : c \in EntryCounts }
    \cup { [n |-> c, layout |-> 2, damage |-> "none"] : c \in 0..MaxFine }
    \cup { [n |-> 3, layout |-> 0, damage |-> "none"] }
    \cup { [n |-> c, layout |-> 1, damage |-> d] :
               c \in DamagedCounts, d \in TreeFileDamages \cup {"end_offset"} }

\* what a read past the end of coords may find in memory
GarbagePoints == { [x |-> 0, y |-> 0], [x |-> -3 * One, y |-> 9 * One + 1] }

-----------------------------------------------------------------------------
(* Loader: r_tree_bulk_loading.cpp *)

\* the for loop of computeMBRs over coords[lo..hi] (0-based), acc an MBR
RECURSIVE ComputeMBRLoop(_, _, _, _)
ComputeMBRLoop(coords, acc, i, endOffset) ==
    IF i > endOffset THEN acc
    ELSE ComputeMBRLoop(coords,
            [x_low  |-> Min2(acc.x_low, coords[i + 1].x),
             y_low  |-> Min2(acc.y_low, coords[i + 1].y),
             x_high |-> Max2(acc.x_high, coords[i + 1].x),
             y_high |-> Max2(acc.y_high, coords[i + 1].y)],
            i + 1, endOffset)

\* an offset record whose range lies inside coords
OffsetInRange(coords, rec) ==
    /\ 0 <= rec.startOffset /\ rec.startOffset < Len(coords)
    /\ rec.endOffset < Len(coords)

\* computeMBRs: one Entry (id, MBR, z_value "") per offset record
computeMBRs(coords, offsets) ==
    [r \in 1..Len(offsets) |->
        LET rec == offsets[r]
            first == coords[rec.startOffset + 1]
        IN  [id |-> rec.id,
             mbr |-> ComputeMBRLoop(coords,
                        MBR(first.x, first.y, first.x, first.y),
                        rec.startOffset + 1, rec.endOffset),
             z_value |-> <<>>]]

\* update_z_value_to_entries: line i of the file goes to entry i
update_z_value_to_entries(es, zfile) ==
    [i \in 1..Len(es) |->
        IF i <= Len(zfile) THEN [es[i] EXCEPT !.z_value = zfile[i]] ELSE es[i]]

\* std::string operator< on key strings (digit characters)
StringLess(a, b) ==
    LET m == Min2(Len(a), Len(b))
        diff == { i \in 1..m : a[i] # b[i] }
    IN  IF diff = {} THEN Len(a) < Len(b)
        ELSE LET i == CHOOSE j \in diff : \A j2 \in diff : j <= j2
             IN DigitVal(a[i]) < DigitVal(b[i])

\* all orderings of a finite set, as sequences
RECURSIVE Orderings(_)
Orderings(S) ==
    IF S = {} THEN { <<>> }
    ELSE UNION { { <<x>> \o t : t \in Orderings(S \ {x}) } : x \in S }

\* sortEntriesByZValue: std::sort with the comparator a.z_value < b.z_value.
\* std::sort leaves the relative order of entries with equal keys
\* unspecified, so every arrangement that is ascending in z_value is a
\* possible result.
sortEntriesByZValue(es) ==
    LET n == Len(es)
        below == Eager([i \in 1..n |->
                    Cardinality({ j \in 1..n : StringLess(es[j].z_value, es[i].z_value) })])
        Same(i) == { j \in 1..n : es[j].z_value = es[i].z_value }
        same == Eager([i \in 1..n |-> Cardinality(Same(i))])
        tied == { i \in 1..n : same[i] > 1 }
        groups == { Same(i) : i \in tied }
        choices == [groups -> UNION { Orderings(g) : g \in groups }]
        ok == { c \in choices : \A g \in groups : { c[g][x] : x \in 1..Len(c[g]) } = g }
        \* the index (into es) of the entry placed at position p under choice c
        At(c, p) ==
            LET i == CHOOSE j \in 1..n : below[j] < p /\ p <= below[j] + same[j]
            IN  IF i \in tied THEN c[Same(i)][p - below[i]] ELSE i
    IN  { [p \in 1..n |-> es[At(c, p)]] : c \in ok }

\* build_leaf_nodes: one LeafNode per entry, in order; returns the memory
build_leaf_nodes(es) ==
    [i \in 1..Len(es) |->
        [kind |-> "leaf", node_id |-> es[i].id, mbr |-> es[i].mbr,
         children_are_leafs |-> FALSE, children |-> <<>>]]

\* an iteration that inserts the borrowed child twice
BorrowStepTwice(st, F, P) ==
    LET h == st.heap
    IN  IF h[F].children = <<>>
        THEN [st EXCEPT !.fault = "back"]
        ELSE
            LET child == Last(h[F].children)
                h1 == [h EXCEPT ![P].mbr = update_parent_mbr(@, h[child].mbr),
                                ![P].children = <<child, child>> \o @,
                                ![F].children = Front(@)]
            IN  IF h1[F].children = <<>>
                THEN [heap |-> h1, fault |-> "recompute"]
                ELSE [heap |-> [h1 EXCEPT ![F].mbr = recompute_node_mbr(h1, h1[F].children)],
                      fault |-> "none"]

\* an iteration that inserts, in place of the borrowed child, that child's
\* last child (when it has one)
BorrowStepBelow(st, F, P) ==
    LET h == st.heap
    IN  IF h[F].children = <<>>
        THEN [st EXCEPT !.fault = "back"]
        ELSE
            LET c == Last(h[F].children)
                child == IF h[c].children = <<>> THEN c ELSE Last(h[c].children)
                h1 == [h EXCEPT ![P].mbr = update_parent_mbr(@, h[child].mbr),
                                ![P].children = <<child>> \o @,
                                ![F].children = Front(@)]
            IN  IF h1[F].children = <<>>
                THEN [heap |-> h1, fault |-> "recompute"]
                ELSE [heap |-> [h1 EXCEPT ![F].mbr = recompute_node_mbr(h1, h1[F].children)],
                      fault |-> "none"]

\* the borrowed child put behind the remainders instead of in front of them
BorrowStepAtBack(st, F, P) ==
    LET h == st.heap
    IN  IF h[F].children = <<>>
        THEN [st EXCEPT !.fault = "back"]
        ELSE
            LET child == Last(h[F].children)
                h1 == [h EXCEPT ![P].mbr = update_parent_mbr(@, h[child].mbr),
                                ![P].children = @ \o <<child>>,
                                ![F].children = Front(@)]
            IN  IF h1[F].children = <<>>
                THEN [heap |-> h1, fault |-> "recompute"]
                ELSE [heap |-> [h1 EXCEPT ![F].mbr = recompute_node_mbr(h1, h1[F].children)],
                      fault |-> "none"]

\* one iteration of the borrowing loop of create_upper_level.  st = [heap,
\* fault]; F is the last full node, P the node with the remainders.
BorrowStep(st, F, P) ==
    LET h == st.heap
    IN  IF h[F].children = <<>>
        THEN [st EXCEPT !.fault = "back"]          \* children.back(), empty vector
        ELSE
            LET child == Last(h[F].children)
                h1 == [h EXCEPT ![P].mbr = update_parent_mbr(@, h[child].mbr),
                                ![P].children = <<child>> \o @,
                                ![F].children = Front(@)]
            IN  IF h1[F].children = <<>>
                THEN [heap |-> h1, fault |-> "recompute"]   \* children[0], empty vector
                ELSE [heap |-> [h1 EXCEPT ![F].mbr = recompute_node_mbr(h1, h1[F].children)],
                      fault |-> "none"]

\* for (int i = 0; i < needed_children; i++): iterations from i on, until the
\* bound is reached or an iteration has undefined behaviour
RECURSIVE BorrowLoop(_, _, _, _, _)
BorrowLoop(st, F, P, i, needed_children) ==
    IF i >= needed_children \/ st.fault # "none" THEN st
    ELSE BorrowLoop(BorrowStep(st, F, P), F, P, i + 1, needed_children)

\* create_upper_level(nodes, node_id) on memory h: the memory afterwards, the
\* returned vector, the counter, and the undefined behaviour met, if any
create_upper_level(h, ns, nid) ==
    LET number_of_full_nodes == Len(ns) \div MAX_CHILDREN_PER_NODE
        children_are_leafs == (nid = 0)
        base == Len(h)
        FullNode(i) ==
            LET first == i * MAX_CHILDREN_PER_NODE + 1
            IN  [kind |-> "internal", node_id |-> nid + i,
                 mbr |-> CoverLoop(h, h[ns[first]].mbr, ns, first + 1,
                                   first + MAX_CHILDREN_PER_NODE - 1),
                 children_are_leafs |-> children_are_leafs,
                 children |-> SubSeq(ns, first, first + MAX_CHILDREN_PER_NODE - 1)]
        h1 == h \o [i \in 1..number_of_full_nodes |-> FullNode(i - 1)]
        upper1 == [i \in 1..number_of_full_nodes |-> base + i]
        remaining_nodes == Len(ns) % MAX_CHILDREN_PER_NODE
    IN  IF remaining_nodes = 0
        THEN [heap |-> h1, upper |-> upper1,
              node_id |-> nid + number_of_full_nodes, fault |-> "none"]
        ELSE
            LET first == number_of_full_nodes * MAX_CHILDREN_PER_NODE + 1
                P == base + number_of_full_nodes + 1
                h2 == Append(h1,
                        [kind |-> "internal", node_id |-> nid + number_of_full_nodes,
                         mbr |-> CoverLoop(h, h[ns[first]].mbr, ns, first + 1, Len(ns)),
                         children_are_leafs |-> children_are_leafs,
                         children |-> SubSeq(ns, first, Len(ns))])
                needed_children == SizeT(MIN_CHILDREN_PER_NODE - remaining_nodes)
                st == IF needed_children > 0 /\ upper1 # <<>>
                      THEN BorrowLoop([heap |-> h2, fault |-> "none"],
                                      Last(upper1), P, 0, needed_children)
                      ELSE [heap |-> h2, fault |-> "none"]
            IN  [heap |-> st.heap, upper |-> Append(upper1, P),
                 node_id |-> nid + number_of_full_nodes + 1, fault |-> st.fault]

\* What the build can do once the borrowing loop has emptied the sibling:
\* recompute_node_mbr reads children[0] of the empty vector (a hardened
\* library aborts there; otherwise the stale slot is read, which leaves the
\* mbr as it was), and the next iteration calls back() on the empty vector,
\* which reads before the buffer.  Either way the process dies inside
\* create_upper_level; fault records where.
BorrowFaults(f) ==
    IF f = "recompute"
    THEN { "recompute_node_mbr: children[0] of an empty vector",
           "children.back() of an empty vector" }
    ELSE { "children.back() of an empty vector" }

-----------------------------------------------------------------------------
(* Query engines: build_tree_from_file, range_query, the kNN loop *)

\* integer division of C++ (truncates toward zero), for b > 0
CDiv(a, b) == IF a >= 0 THEN a \div b ELSE -((-a) \div b)

\* the four tokens read with the axes exchanged
ReadMbrAxesExchanged(numbers, i) ==
    LET x_low == stod(numbers[i + 4])
        x_high == stod(numbers[i + 5])
        y_low == stod(numbers[i + 2])
        y_high == stod(numbers[i + 3])
    IN  MBR(x_low, y_low, x_high, y_high)

\* the MBR read from the five tokens at numbers[i..i+4] (0-based i) by the
\* range engine: x_low, x_high, y_low, y_high, then MBR(x_low, y_low, x_high, y_high)
ReadMbrRange(numbers, i) ==
    LET x_low == stod(numbers[i + 2])
        x_high == stod(numbers[i + 3])
        y_low == stod(numbers[i + 4])
        y_high == stod(numbers[i + 5])
    IN  MBR(x_low, y_low, x_high, y_high)

\* the four tokens taken as x_low, y_low, x_high, y_high in file order
ReadMbrInFileOrder(numbers, i) ==
    MBR(stod(numbers[i + 2]), stod(numbers[i + 3]), stod(numbers[i + 4]), stod(numbers[i + 5]))

\* the same in the kNN engine: x_low, y_low, x_high, y_high read from
\* numbers[i+1], numbers[i+3], numbers[i+2], numbers[i+4]
ReadMbrKnn(numbers, i) ==
    LET x_low == stod(numbers[i + 2])
        y_low == stod(numbers[i + 4])
        x_high == stod(numbers[i + 3])
        y_high == stod(numbers[i + 5])
    IN  MBR(x_low, y_low, x_high, y_high)

\* the body of while (std::getline(infile, line)) of build_tree_from_file.
\* st = [tree, id_to_node, root, fault]; engine selects whose reader is used.
\* A fault ends the function: an index past the end of numbers, a token that
\* stoi/stod reject, an id that id_to_node.find does not find (child_it is
\* end() and child_it->second is read), or recompute_node_mbr on no children.
ReadLine(st, line, engine) ==
    LET numbers == extract_numbers(line)
        size == Len(numbers)
        groups == IF size > 2 THEN CDiv(size - 2 + 4, 5) ELSE 0
        is_leaf == numbers[1] = <<"0">>
        node_id_ == stoi(numbers[2])
        self == Len(st.tree) + 1
        ChildId(g) == stoi(numbers[5 * g + 3])
        ChildMbr(g) == IF engine = "range" THEN ReadMbrRange(numbers, 5 * g + 2)
                       ELSE ReadMbrKnn(numbers, 5 * g + 2)
        leaves == [g \in 1..groups |->
                     [kind |-> "leaf", node_id |-> ChildId(g - 1), mbr |-> ChildMbr(g - 1),
                      children_are_leafs |-> FALSE, children |-> <<>>]]
        children == IF is_leaf THEN [g \in 1..groups |-> self + g]
                    ELSE [g \in 1..groups |-> st.id_to_node[ChildId(g - 1)]]
        t1 == st.tree
              \o << [kind |-> "internal", node_id |-> node_id_, mbr |-> MBR(0, 0, 0, 0),
                     children_are_leafs |-> is_leaf, children |-> Eager(children)] >>
              \o (IF is_leaf THEN leaves ELSE <<>>)
    IN  IF st.fault # "none" THEN st
        ELSE IF size < 2 \/ 2 + 5 * groups # size
        THEN [st EXCEPT !.fault = "numbers[i]: index past the end"]
        ELSE IF ~IsNumberToken(numbers[2]) \/ \E j \in 3..size : ~IsNumberToken(numbers[j])
        THEN [st EXCEPT !.fault = "std::invalid_argument"]
        ELSE IF ~is_leaf /\ \E g \in 0..(groups - 1) : ChildId(g) \notin DOMAIN st.id_to_node
        THEN [st EXCEPT !.fault = "child_it->second: id not in id_to_node"]
        ELSE IF groups = 0
        THEN [st EXCEPT !.fault = "recompute_node_mbr: children[0] of an empty vector"]
        ELSE [tree |-> [t1 EXCEPT ![self].mbr = recompute_node_mbr(t1, t1[self].children)],
              id_to_node |-> [x \in DOMAIN st.id_to_node \cup {node_id_} |->
                                IF x = node_id_ THEN self ELSE st.id_to_node[x]],
              root |-> self,
              fault |-> "none"]

\* the lines file[lo..hi], in order
RECURSIVE ReadLines(_, _, _, _, _)
ReadLines(st, file, engine, lo, hi) ==
    IF Strict(st) /\ lo > hi THEN st
    ELSE IF lo = hi THEN ReadLine(st, file[lo], engine)
    ELSE LET mid == (lo + hi) \div 2
         IN ReadLines(ReadLines(st, file, engine, lo, mid), file, engine, mid + 1, hi)

\* build_tree_from_file of the given engine on the lines of the tree file;
\* root is Null ("Tree is empty!") when the file has no line
build_tree_from_file(file, engine) ==
    ReadLines([tree |-> <<>>, id_to_node |-> <<>>, root |-> Null, fault |-> "none"],
              file, engine, 1, Len(file))

\* range_query(node, query_mbr, results): results afterwards (res is the
\* vector on entry).  t is the engine's memory, node a ref or Null.
RECURSIVE range_query(_, _, _, _)
range_query(t, node, query_mbr, res) ==
    IF node = Null THEN res
    ELSE res \o
         Concat([i \in 1..Len(t[node].children) |->
            LET child == t[node].children[i]
            IN  IF ~mbr_intersects(t[child].mbr, query_mbr) THEN <<>>
                ELSE IF t[child].kind = "internal"
                     THEN range_query(t, child, query_mbr, <<>>)
                     ELSE <<t[child].node_id>>])

\* std::push_heap's __push_heap: move value up from holeIndex (0-based)
RECURSIVE PushHeap(_, _, _)
PushHeap(v, holeIndex, value) ==
    LET parent == CDiv(holeIndex - 1, 2)
    IN  IF holeIndex > 0 /\ PQGreater(v[parent + 1], value)
        THEN PushHeap([v EXCEPT ![holeIndex + 1] = v[parent + 1]], parent, value)
        ELSE [v EXCEPT ![holeIndex + 1] = value]

\* push_back alone, leaving the vector in arrival order
PushBackOnly(v, e) == Append(v, e)

\* pq.push(e): push_back, then push_heap
PQPush(v, e) == PushHeap(Append(v, e), Len(v), e)

\* the while loop of std::__adjust_heap: [v, hole, second]
RECURSIVE AdjustDown(_, _, _, _)
AdjustDown(v, holeIndex, secondChild, len) ==
    IF secondChild < CDiv(len - 1, 2)
    THEN LET s0 == 2 * (secondChild + 1)
             s1 == IF PQGreater(v[s0 + 1], v[s0]) THEN s0 - 1 ELSE s0
         IN  AdjustDown([v EXCEPT ![holeIndex + 1] = v[s1 + 1]], s1, s1, len)
    ELSE [v |-> v, hole |-> holeIndex, second |-> secondChild]

\* std::__adjust_heap(first, 0, len, value)
AdjustHeap(v, len, value) ==
    LET d == AdjustDown(v, 0, 0, len)
        e == IF len % 2 = 0 /\ d.second = CDiv(len - 2, 2)
             THEN LET s0 == 2 * (d.second + 1)
                  IN  [v |-> [d.v EXCEPT ![d.hole + 1] = d.v[s0]], hole |-> s0 - 1]
             ELSE [v |-> d.v, hole |-> d.hole]
    IN  PushHeap(e.v, e.hole, value)

\* a pop that leaves the top entry in the queue
PQPopLeavesTop(v) == v

\* pq.pop(): pop_heap, then pop_back
PQPop(v) ==
    IF Len(v) > 1
    THEN LET value == Last(v)
             v1 == [v EXCEPT ![Len(v)] = v[1]]
         IN  Front(AdjustHeap(v1, Len(v) - 1, value))
    ELSE <<>>

\* for (child : children) pq.push({child, min_dist(child->mbr, x, y)}) for the
\* children cs[lo..hi], in order
RECURSIVE PushChildren(_, _, _, _, _, _, _)
PushChildren(v, t, cs, x, y, lo, hi) ==
    IF Strict(v) /\ lo > hi THEN v
    ELSE IF lo = hi
    THEN PQPush(v, [node |-> cs[lo], distance |-> min_dist(t[cs[lo]].mbr, x, y)])
    ELSE LET mid == (lo + hi) \div 2
         IN PushChildren(PushChildren(v, t, cs, x, y, lo, mid), t, cs, x, y, mid + 1, hi)

\* the ids stay in the vector for the next query
clear_nothing(v) == v

\* results.clear()
clear(v) == <<>>

\* run_kn_queries, the body of the loop for one query line: the queue with
\* the root alone, then the search loop from queue q and ids collected
RECURSIVE kn_search(_, _, _, _, _, _)
kn_search(t, kn, x, y, q, ids) ==
    IF Strict(q) /\ Strict(ids) /\ ~(q # <<>> /\ Len(ids) < SizeT(kn)) THEN ids
    ELSE LET entry == q[1]
             rest == PQPop(q)
         IN  IF t[entry.node].kind = "internal"
             THEN kn_search(t, kn, x, y,
                            PushChildren(rest, t, t[entry.node].children, x, y,
                                         1, Len(t[entry.node].children)),
                            ids)
             ELSE kn_search(t, kn, x, y, rest, Append(ids, t[entry.node].node_id))

\* Query files.  A range query line is x_low y_low x_high y_high, a kNN query
\* line is x y; the values are in model units.
QueryRects(layout) ==
    IF layout = 0 THEN
        { <<One, One, 4 * One, 4 * One>>, <<0, 0, 6 * One, 6 * One>> }
    ELSE IF layout = 1 THEN
        { <<-One, -One, 10 * One, 10 * One>>,
          <<One, One, 2 * One, 2 * One>>,
          <<3 * One + Half, 0, 3 * One + Half, 6 * One>>,
          <<8 * One, 8 * One, 9 * One, 9 * One>> }
    ELSE
        { <<123456700, -100, 123456900, 100>>,
          <<123456780, -4, 123456790, 4>>,
          <<123456760, 10, 123456764, 30>> }

QueryPoints(layout) ==
    IF layout = 0 THEN { <<0, 0>>, <<4 * One, 4 * One>> }
    ELSE IF layout = 1 THEN
        { <<0, 0>>, <<2 * One + Half, One>>, <<7 * One, 3 * One>> }
    ELSE { <<123456780, 0>>, <<123456750, 25>>, <<123456820, -30>> }

\* the Leaf objects of an engine's memory
LeafRefs(t) == { r \in 1..Len(t) : t[r].kind = "leaf" }

-----------------------------------------------------------------------------
(* State machine *)

NoQuery == [kind |-> "none"]
NoLine == [kind |-> "none"]

\* no query-processing program has been started
QueryProgramsIdle ==
    /\ transactions = <<>>
    /\ queries = <<>>
    /\ query_number = -1
    /\ top_k = 0
    /\ method_results = <<>>

\* no relational operator has been started
RelationalIdle ==
    /\ r_sorted = <<>>
    /\ s_sorted = <<>>
    /\ r_tellg = 0
    /\ s_tellg = 0
    /\ r_line = <<>>
    /\ s_line = <<>>
    /\ r_read_succeed = FALSE
    /\ s_read_succeed = FALSE
    /\ last_written_record = <<>>
    /\ r_difference_s = <<>>
    /\ r_union_s = <<>>

\* no R-tree program has been started
RtreeIdle ==
    /\ input = [n |-> 0, layout |-> 1, damage |-> "none"]
    /\ entries = <<>>
    /\ heap = <<>>
    /\ nodes = <<>>
    /\ node_id = 0
    /\ outfile = <<>>
    /\ root = Null
    /\ tree = <<>>
    /\ troot = Null
    /\ k = 0
    /\ query_id = 0
    /\ query = NoQuery
    /\ pq = <<>>
    /\ results = <<>>
    /\ kn_leaf_ids = <<>>
    /\ popped = <<>>
    /\ printed = NoLine

Init ==
    /\ QueryProgramsIdle
    /\ RelationalIdle
    /\ input \in Inputs
    /\ pc = "main"
    /\ entries = <<>>
    /\ heap = <<>>
    /\ nodes = <<>>
    /\ node_id = 0
    /\ outfile = <<>>
    /\ root = Null
    /\ fault = "none"
    /\ tree = <<>>
    /\ troot = Null
    /\ k = 0
    /\ query_id = 0
    /\ query = NoQuery
    /\ pq = <<>>
    /\ results = <<>>
    /\ kn_leaf_ids = <<>>
    /\ popped = <<>>
    /\ printed = NoLine

engineVars == <<tree, troot, k, query_id, query, pq, results, kn_leaf_ids, popped, printed>>

\* main: readCoords, readOffsets, computeMBRs
ComputeMBRs ==
    /\ pc = "main"
    /\ LET coords == CoordsFile(input)
           offsets == OffsetsFile(input)
       IN  IF \A r \in 1..Len(offsets) : OffsetInRange(coords, offsets[r])
           THEN /\ entries' = computeMBRs(coords, offsets)
                /\ pc' = "generate_z_value"
                /\ fault' = fault
           ELSE \* coords[i] outside the vector: undefined behaviour.  The
                \* process is killed, or the read returns what lies there
                \* and the loader goes on.
                \/ /\ entries' = entries
                   /\ pc' = "crashed"
                   /\ fault' = "computeMBRs: coords index out of range"
                \/ /\ \A r \in 1..Len(offsets) : offsets[r].startOffset >= 0
                   /\ \E g \in GarbagePoints :
                        LET last == SetMax({ offsets[r].endOffset : r \in 1..Len(offsets) })
                            memory == coords \o [i \in 1..(last + 1 - Len(coords)) |-> g]
                        IN  entries' = computeMBRs(memory, offsets)
                   /\ pc' = "generate_z_value"
                   /\ fault' = fault
    /\ UNCHANGED <<input, heap, nodes, node_id, outfile, root>>
    /\ UNCHANGED <<queryVars, relationalVars>>
    /\ UNCHANGED engineVars

\* main: generate_z_value (the keys come back from z_order.py in z_values.txt)
GenerateZValue ==
    /\ pc = "generate_z_value"
    /\ entries' = update_z_value_to_entries(entries, ZValuesFile(input))
    /\ pc' = "sort"
    /\ UNCHANGED <<input, heap, nodes, node_id, outfile, root, fault>>
    /\ UNCHANGED <<queryVars, relationalVars>>
    /\ UNCHANGED engineVars

\* main: sortEntriesByZValue
SortEntries ==
    /\ pc = "sort"
    /\ entries' \in sortEntriesByZValue(entries)
    /\ pc' = "build_leaf_nodes"
    /\ UNCHANGED <<input, heap, nodes, node_id, outfile, root, fault>>
    /\ UNCHANGED <<queryVars, relationalVars>>
    /\ UNCHANGED engineVars

\* main: build_leaf_nodes, then build_tree up to its while loop
BuildLeafNodes ==
    /\ pc = "build_leaf_nodes"
    /\ heap' = build_leaf_nodes(entries)
    /\ nodes' = [i \in 1..Len(entries) |-> i]
    /\ node_id' = 0
    /\ outfile' = <<>>
    /\ pc' = "build_tree"
    /\ UNCHANGED <<input, entries, root, fault>>
    /\ UNCHANGED <<queryVars, relationalVars>>
    /\ UNCHANGED engineVars

\* the lines of a level put before the lines already in the file
WriteLevelOnTop(file, h, level) ==
    [i \in 1..Len(level) |-> InternalNode_toString(h, level[i])] \o file

\* for (node : nodes) outfile << node->toString() << "\n"
WriteLevel(file, h, level) ==
    file \o [i \in 1..Len(level) |-> InternalNode_toString(h, level[i])]

\* build_tree: one iteration of while (nodes.size() > 1)
CreateUpperLevel ==
    /\ pc = "build_tree"
    /\ Len(nodes) > 1
    /\ LET r == create_upper_level(heap, nodes, node_id)
       IN  /\ heap' = r.heap
           /\ node_id' = r.node_id
           /\ IF r.fault = "none"
              THEN /\ nodes' = r.upper
                   /\ outfile' = WriteLevel(outfile, r.heap, r.upper)
                   /\ pc' = pc
                   /\ fault' = fault
              ELSE /\ nodes' = nodes
                   /\ outfile' = outfile
                   /\ pc' = "crashed"
                   /\ fault' \in BorrowFaults(r.fault)
    /\ UNCHANGED <<input, entries, root>>
    /\ UNCHANGED <<queryVars, relationalVars>>
    /\ UNCHANGED engineVars

\* build_tree: the loop has ended; close the file and return
\* dynamic_pointer_cast<InternalNode>(nodes.front()).  front() of an empty
\* vector is undefined behaviour.
BuildTreeReturn ==
    /\ pc = "build_tree"
    /\ Len(nodes) <= 1
    /\ IF nodes = <<>>
       THEN /\ pc' = "crashed"
            /\ fault' = "nodes.front() of an empty vector"
            /\ root' = root
       ELSE /\ pc' = "loader_done"
            /\ fault' = fault
            /\ root' = IF heap[nodes[1]].kind = "internal" THEN nodes[1] ELSE Null
    /\ UNCHANGED <<input, entries, heap, nodes, node_id, outfile>>
    /\ UNCHANGED <<queryVars, relationalVars>>
    /\ UNCHANGED engineVars

\* the values of <kn> on the command line: negative, zero, small, and one
\* more than the tree has leaves
KChoices(t) == (-1..MaxK) \cup {Cardinality(LeafRefs(t)) + 1}

\* the tree file with a damage
DamagedFile(file, damage) ==
    IF damage = "no_lines" THEN <<>>
    ELSE IF damage = "first_line" /\ file # <<>> THEN Tail(file)
    ELSE file

\* between the loader and the engines: Rtree.txt is corrupted or hand-edited
DamageTreeFile ==
    /\ pc = "loader_done"
    /\ input.damage \in TreeFileDamages
    /\ outfile' = DamagedFile(outfile, input.damage)
    /\ pc' = "file_damaged"
    /\ UNCHANGED <<input, entries, heap, nodes, node_id, root, fault>>
    /\ UNCHANGED <<queryVars, relationalVars>>
    /\ UNCHANGED engineVars

\* the tree file is the one the engines are given
TreeFileReady ==
    \/ pc = "loader_done" /\ input.damage \notin TreeFileDamages
    \/ pc = "file_damaged"

\* range_queries main: build_tree_from_file, then run_range_queries up to its loop
RangeStart ==
    /\ TreeFileReady
    /\ LET b == build_tree_from_file(outfile, "range")
       IN  IF b.fault = "none"
           THEN /\ tree' = b.tree
                /\ troot' = b.root
                /\ pc' = "range_loop"
                /\ fault' = fault
           ELSE /\ tree' = tree
                /\ troot' = troot
                /\ pc' = "crashed"
                /\ fault' = b.fault
    /\ query_id' = 0
    /\ results' = <<>>
    /\ UNCHANGED <<input, entries, heap, nodes, node_id, outfile, root>>
    /\ UNCHANGED <<queryVars, relationalVars>>
    /\ UNCHANGED <<k, query, pq, kn_leaf_ids, popped, printed>>

\* run_range_queries: one iteration of while (std::getline(infile, line));
\* query_id holds line_count
RangeQueryLine ==
    /\ pc = "range_loop"
    /\ query_id < MaxQueries
    /\ \E q \in QueryRects(input.layout) :
         LET query_mbr == MBR(q[1], q[2], q[3], q[4])
             res == range_query(tree, troot, query_mbr, results)
         IN  /\ query' = [kind |-> "rect", mbr |-> query_mbr]
             /\ printed' = [kind |-> "range", index |-> query_id,
                            count |-> Len(res), ids |-> res]
             /\ results' = clear(res)
    /\ query_id' = query_id + 1
    /\ UNCHANGED <<input, pc, entries, heap, nodes, node_id, outfile, root, fault>>
    /\ UNCHANGED <<queryVars, relationalVars>>
    /\ UNCHANGED <<tree, troot, k, pq, kn_leaf_ids, popped>>

\* k_nearest_neighbors main: stoi(argv[3]), build_tree_from_file, then
\* run_kn_queries up to its loop
KnnStart ==
    /\ TreeFileReady
    /\ LET b == build_tree_from_file(outfile, "knn")
       IN  IF b.fault = "none"
           THEN /\ tree' = b.tree
                /\ troot' = b.root
                /\ pc' = "knn_loop"
                /\ fault' = fault
                /\ k' \in KChoices(b.tree)
           ELSE /\ tree' = tree
                /\ troot' = troot
                /\ pc' = "crashed"
                /\ fault' = b.fault
                /\ k' = k
    /\ query_id' = 0
    /\ UNCHANGED <<input, entries, heap, nodes, node_id, outfile, root>>
    /\ UNCHANGED <<queryVars, relationalVars>>
    /\ UNCHANGED <<query, pq, results, kn_leaf_ids, popped, printed>>

\* run_kn_queries: read a query line, declare pq and push the root, declare
\* kn_leaf_ids.  root->mbr on a null root is undefined behaviour (a read
\* through a null pointer: the process is killed).
KnnReadQuery ==
    /\ pc = "knn_loop"
    /\ query_id < MaxQueries
    /\ \E p \in QueryPoints(input.layout) :
         /\ query' = [kind |-> "point", x |-> p[1], y |-> p[2]]
         /\ IF troot = Null
            THEN /\ pc' = "crashed"
                 /\ fault' = "root->mbr: null pointer"
                 /\ pq' = <<>>
            ELSE /\ pc' = "knn_search"
                 /\ fault' = fault
                 /\ pq' = PQPush(<<>>, [node |-> troot,
                                        distance |-> min_dist(tree[troot].mbr, p[1], p[2])])
    /\ kn_leaf_ids' = <<>>
    /\ popped' = <<>>
    /\ UNCHANGED <<input, entries, heap, nodes, node_id, outfile, root>>
    /\ UNCHANGED <<queryVars, relationalVars>>
    /\ UNCHANGED <<tree, troot, k, query_id, results, printed>>

\* run_kn_queries: one iteration of
\* while (!pq.empty() && kn_leaf_ids.size() < static_cast<size_t>(k));
\* popped records the entries taken from the queue
KnnStep ==
    /\ pc = "knn_search"
    /\ pq # <<>>
    /\ Len(kn_leaf_ids) < SizeT(k)
    /\ LET entry == pq[1]
           rest == PQPop(pq)
           internal_node == tree[entry.node]
       IN  /\ popped' = Append(popped, entry)
           /\ IF internal_node.kind = "internal"
              THEN /\ pq' = PushChildren(rest, tree, internal_node.children, query.x, query.y,
                                         1, Len(internal_node.children))
                   /\ kn_leaf_ids' = kn_leaf_ids
              ELSE /\ pq' = rest
                   /\ kn_leaf_ids' = Append(kn_leaf_ids, tree[entry.node].node_id)
    /\ UNCHANGED <<input, pc, entries, heap, nodes, node_id, outfile, root, fault>>
    /\ UNCHANGED <<queryVars, relationalVars>>
    /\ UNCHANGED <<tree, troot, k, query_id, query, results, printed>>

\* run_kn_queries: the search loop has ended; print the line
KnnPrint ==
    /\ pc = "knn_search"
    /\ ~(pq # <<>> /\ Len(kn_leaf_ids) < SizeT(k))
    /\ printed' = [kind |-> "knn", index |-> query_id,
                   count |-> Len(kn_leaf_ids), ids |-> kn_leaf_ids]
    /\ query_id' = query_id + 1
    /\ pc' = "knn_loop"
    /\ UNCHANGED <<input, entries, heap, nodes, node_id, outfile, root, fault>>
    /\ UNCHANGED <<queryVars, relationalVars>>
    /\ UNCHANGED <<tree, troot, k, query, pq, results, kn_leaf_ids, popped>>

Next ==
    \/ ComputeMBRs
    \/ GenerateZValue
    \/ SortEntries
    \/ BuildLeafNodes
    \/ CreateUpperLevel
    \/ BuildTreeReturn
    \/ DamageTreeFile
    \/ RangeStart
    \/ RangeQueryLine
    \/ KnnStart
    \/ KnnReadQuery
    \/ KnnStep
    \/ KnnPrint

Spec == Init /\ [][Next]_vars

-----------------------------------------------------------------------------
(* Properties of the loader's tree *)

\* per-axis minimum of the lows and maximum of the highs of the nodes cs of h
UnionOfMbrs(h, cs) ==
    [x_low |-> SetMin({ h[c].mbr.x_low : c \in Range(cs) }),
     y_low |-> SetMin({ h[c].mbr.y_low : c \in Range(cs) }),
     x_high |-> SetMax({ h[c].mbr.x_high : c \in Range(cs) }),
     y_high |-> SetMax({ h[c].mbr.y_high : c \in Range(cs) })]

InternalRefs(h) == { r \in 1..Len(h) : h[r].kind = "internal" }

\* build_tree is between two calls of create_upper_level, or has returned
LevelBuilt == pc \in {"build_tree", "loader_done"} /\ node_id > 0

\* the undefined behaviour of the borrowing loop
BorrowingFaults == BorrowFaults("recompute")

\* the depths, counted from node r at depth d, of the Leaves below r
RECURSIVE LeafDepths(_, _, _)
LeafDepths(h, r, d) ==
    IF h[r].kind = "leaf" THEN {d}
    ELSE UNION { LeafDepths(h, c, d + 1) : c \in Range(h[r].children) }

\* all children slots of the memory h, one after the other
ChildSlots(h) == Concat([r \in 1..Len(h) |-> h[r].children])

\* some create_upper_level call has moved children from a full node to the
\* node with the remainders: that node has exactly MIN children and the node
\* made just before it has fewer than MAX
Borrowed(h) ==
    \E r \in InternalRefs(h) :
        /\ r > 1
        /\ h[r - 1].kind = "internal"
        /\ Len(h[r].children) = MIN_CHILDREN_PER_NODE
        /\ Len(h[r - 1].children) < MAX_CHILDREN_PER_NODE

\* C5: for any number of entries the loader gets through create_upper_level,
\* and in the tree it returns every Internal node other than the root has
\* between MIN_CHILDREN_PER_NODE and MAX_CHILDREN_PER_NODE children.
C5_FanoutForAnyNumberOfEntries ==
    /\ ~(pc = "crashed" /\ fault \in BorrowingFaults)
    /\ pc = "loader_done" =>
         \A r \in InternalRefs(heap) \ {nodes[1]} :
             /\ Len(heap[r].children) >= MIN_CHILDREN_PER_NODE
             /\ Len(heap[r].children) <= MAX_CHILDREN_PER_NODE

\* C6: after every call of create_upper_level that has returned, and in the
\* final tree, the mbr of every Internal node is the per-axis union of the
\* mbrs of the children it has then.
C6_MbrIsUnionOfChildren ==
    LevelBuilt =>
        \A r \in InternalRefs(heap) :
            /\ heap[r].children # <<>>
            /\ heap[r].mbr = UnionOfMbrs(heap, heap[r].children)

C6_Witness ==
    /\ pc = "build_tree"
    /\ Len(nodes) > 1
    /\ Borrowed(heap)
    /\ \E r \in InternalRefs(heap) : heap[r].mbr.x_low < 0 \/ heap[r].mbr.y_low < 0

\* C8: in every tree the loader returns, all Leaves are at the same depth
\* below the top node.
C8_Balanced ==
    pc = "loader_done" => Cardinality(LeafDepths(heap, nodes[1], 0)) = 1

C8_Witness ==
    /\ pc = "loader_done"
    /\ LeafDepths(heap, nodes[1], 0) = {3}
    /\ Borrowed(heap)
    /\ \E r \in Range(heap[nodes[1]].children) :
           Len(heap[r].children) = MIN_CHILDREN_PER_NODE

\* C9: after every call of create_upper_level that has returned, and in the
\* final tree, every entry is the id and mbr of exactly one Leaf, every node
\* outside the current top level fills exactly one child slot, and the nodes
\* of the top level fill none.
C9_OneLeafPerEntryOneParentPerNode ==
    (pc \in {"build_tree", "loader_done"}) =>
        LET slots == ChildSlots(heap)
            leaves == { r \in 1..Len(heap) : heap[r].kind = "leaf" }
        IN  /\ Cardinality(leaves) = Len(entries)
            /\ \A i \in 1..Len(entries) :
                   Cardinality({ r \in leaves : /\ heap[r].node_id = entries[i].id
                                                /\ heap[r].mbr = entries[i].mbr }) = 1
            /\ Cardinality(Range(slots)) = Len(slots)
            /\ Range(slots) = (1..Len(heap)) \ Range(nodes)

C9_Witness ==
    /\ pc = "loader_done"
    /\ Borrowed(heap)
    /\ Len(entries) > MAX_CHILDREN_PER_NODE
    /\ root # Null

\* C10: given exactly one entry, build_tree returns a root that is not null
\* and is the Leaf of that entry.
C10_SingleEntryRootIsLeaf ==
    (pc = "loader_done" /\ input.n = 1) =>
        /\ root # Null
        /\ heap[root].kind = "leaf"
        /\ heap[root].node_id = entries[1].id
        /\ heap[root].mbr = entries[1].mbr

-----------------------------------------------------------------------------
(* Properties of the query engines *)

\* a value rounded to the nearest multiple of 10^-PRECISION
RoundToPrecision(v) ==
    LET r == ((Abs(v) + 5) \div 10) * 10
    IN  IF v < 0 THEN -r ELSE r

\* node hr of the loader's memory and node tr of an engine's memory have the
\* same id, kind and (at the printed precision) mbr, and, when Internal, the
\* same flag and the same children in the same order
RECURSIVE SameNode(_, _)
SameNode(hr, tr) ==
    /\ heap[hr].node_id = tree[tr].node_id
    /\ heap[hr].kind = tree[tr].kind
    /\ tree[tr].mbr = [f \in DOMAIN heap[hr].mbr |-> RoundToPrecision(heap[hr].mbr[f])]
    /\ heap[hr].kind = "internal" =>
         /\ heap[hr].children_are_leafs = tree[tr].children_are_leafs
         /\ Len(heap[hr].children) = Len(tree[tr].children)
         /\ \A i \in 1..Len(heap[hr].children) :
                SameNode(heap[hr].children[i], tree[tr].children[i])

\* an engine has just returned from build_tree_from_file
Reloaded == pc \in {"range_loop", "knn_loop"} /\ query_id = 0

\* C7: the tree that build_tree_from_file (of either engine) makes of the
\* file written by build_tree has the root id, the child ids, the
\* children-are-leaves flags and, at 6 decimals, the mbrs of the loader's tree.
C7_RoundTrip ==
    (Reloaded /\ input.damage \notin TreeFileDamages) =>
        IF root = Null THEN troot = Null
        ELSE troot # Null /\ SameNode(root, troot)

C7_Witness ==
    /\ Reloaded
    /\ input.damage = "none"
    /\ pc = "knn_loop"
    /\ troot # Null
    /\ ~tree[troot].children_are_leafs
    /\ \E r \in 1..Len(heap) : /\ heap[r].kind = "leaf"
                               /\ heap[r].mbr.y_low < 0
                               /\ heap[r].mbr.x_high % 10 # 0

\* closed rectangles a and b have a common point
Touch(a, b) ==
    /\ a.x_low <= b.x_high /\ b.x_low <= a.x_high
    /\ a.y_low <= b.y_high /\ b.y_low <= a.y_high

\* the Leaves of the engine's tree whose mbr meets the query rectangle
LeavesMeeting(q) == { r \in LeafRefs(tree) : Touch(tree[r].mbr, q) }

\* C4: the line printed for a range query lists exactly the ids of the
\* Leaves of the reloaded tree whose mbr meets the closed query rectangle,
\* each once; a rectangle that covers every Leaf lists every Leaf id once.
C4_RangeQueryExact ==
    (pc = "range_loop" /\ printed.kind = "range") =>
        LET hit == LeavesMeeting(query.mbr)
            ids == printed.ids
        IN  /\ Len(ids) = Cardinality(hit)
            /\ Cardinality(Range(ids)) = Len(ids)
            /\ Range(ids) = { tree[r].node_id : r \in hit }
            /\ printed.count = Len(ids)
            /\ (\A r \in LeafRefs(tree) :
                    /\ query.mbr.x_low <= tree[r].mbr.x_low
                    /\ query.mbr.y_low <= tree[r].mbr.y_low
                    /\ tree[r].mbr.x_high <= query.mbr.x_high
                    /\ tree[r].mbr.y_high <= query.mbr.y_high)
               => Range(ids) = { tree[r].node_id : r \in LeafRefs(tree) }

\* a range query on a tree of two levels whose answer holds a Leaf that only
\* touches the rectangle and leaves other Leaves out
C4_Witness ==
    /\ pc = "range_loop"
    /\ printed.kind = "range"
    /\ troot # Null
    /\ ~tree[troot].children_are_leafs
    /\ printed.count > 0
    /\ printed.count < Cardinality(LeafRefs(tree))
    /\ \E r \in LeavesMeeting(query.mbr) :
           \/ tree[r].mbr.x_high = query.mbr.x_low
           \/ tree[r].mbr.x_low = query.mbr.x_high
           \/ tree[r].mbr.y_high = query.mbr.y_low
           \/ tree[r].mbr.y_low = query.mbr.y_high

\* the search loop of the current kNN query has ended
SearchEnded == pc = "knn_search" /\ ~(pq # <<>> /\ Len(kn_leaf_ids) < SizeT(k))

\* the entries taken from the queue that were Leaves, in the order taken
PoppedLeaves == SelectSeq(popped, LAMBDA e : tree[e.node].kind = "leaf")

\* min_dist from the point of the current query to node r of the engine's tree
QueryDist(r) == min_dist(tree[r].mbr, query.x, query.y)

\* C1: for a reloaded tree with L Leaves, a query point and 1 <= k <= L, the
\* ids collected by the search loop are those of k Leaves, and no Leaf
\* outside them is strictly nearer to the point than one of them.
C1_BruteForceNearest ==
    (SearchEnded /\ k >= 1 /\ k <= Cardinality(LeafRefs(tree))) =>
        LET pl == PoppedLeaves
            res == { e.node : e \in Range(pl) }
        IN  /\ kn_leaf_ids = [i \in 1..Len(pl) |-> tree[pl[i].node].node_id]
            /\ Cardinality(res) = k
            /\ \A a \in LeafRefs(tree) \ res : \A b \in res :
                   ~DistLess(QueryDist(a), QueryDist(b))

\* a finished search on a tree of two levels that left Leaves out, one of
\* them farther from the point than a returned one
C1_Witness ==
    /\ SearchEnded
    /\ k = MaxK
    /\ ~tree[troot].children_are_leafs
    /\ Len(kn_leaf_ids) = k
    /\ \E a \in LeafRefs(tree) : \E e \in Range(PoppedLeaves) :
           DistLess(e.distance, QueryDist(a))
    /\ DistLess(<<0, 0, 0>>, PoppedLeaves[1].distance)

\* C2: during and after the search loop the collected Leaves are in
\* non-decreasing order of min_dist to the query point; on the documented
\* example (entries 1, 2, 3, point (0,0), k = 2) the list ends as 1, 3.
C2_ResultOrdered ==
    /\ pc = "knn_search" =>
         LET pl == PoppedLeaves
             n == Len(pl)
         IN  /\ Len(kn_leaf_ids) = n
             /\ n >= 2 => ~DistLess(QueryDist(pl[n].node), QueryDist(pl[n - 1].node))
    /\ SearchEnded =>
         LET pl == PoppedLeaves
         IN  \A i \in 1..(Len(pl) - 1) :
                 ~DistLess(QueryDist(pl[i + 1].node), QueryDist(pl[i].node))
    /\ (SearchEnded /\ input.layout = 0 /\ query.x = 0 /\ query.y = 0 /\ k = 2)
         => kn_leaf_ids = <<1, 3>>

C2_Witness ==
    /\ SearchEnded
    /\ input.layout = 0
    /\ query.x = 0 /\ query.y = 0
    /\ k = 2
    /\ kn_leaf_ids = <<1, 3>>
    /\ DistLess(QueryDist(PoppedLeaves[1].node), QueryDist(PoppedLeaves[2].node))

\* C3: for a reloaded tree with L Leaves and k >= 0 the kNN query runs to its
\* end and collects min(k, L) ids; when k > L these are all Leaf ids, each once.
C3_ReturnsMinOfKAndLeafCount ==
    /\ ~(pc = "crashed" /\ fault = "root->mbr: null pointer" /\ k >= 0)
    /\ (SearchEnded /\ k >= 0) =>
         LET L == Cardinality(LeafRefs(tree))
         IN  /\ Len(kn_leaf_ids) = Min2(k, L)
             /\ k > L => /\ Cardinality(Range(kn_leaf_ids)) = L
                         /\ Range(kn_leaf_ids) = { tree[r].node_id : r \in LeafRefs(tree) }

\* ---------------------------------------------------------------------------
\* Degenerate and damaged inputs
\* ---------------------------------------------------------------------------

\* C11: given zero entries the loader ends in an explicit error and yields no
\* tree; it never takes the first element of the empty list of nodes.
C11_ZeroEntriesExplicitError ==
    input.n = 0 =>
        /\ fault # "nodes.front() of an empty vector"
        /\ pc # "loader_done"

\* C12: on a tree file without lines (a null root) the range engine and the
\* kNN engine both answer every query with zero results, and neither reads
\* through the null root.
C12_EmptyTreeZeroResults ==
    /\ fault # "root->mbr: null pointer"
    /\ (pc \in {"range_loop", "knn_loop"} /\ troot = Null /\ printed # NoLine)
           => printed.count = 0

\* C13: a line of the tree file that names an Internal child whose id no
\* earlier line defined ends build_tree_from_file in a fatal error; the entry
\* that id_to_node.find did not find is never read.
C13_DanglingChildIdIsFatalError ==
    fault # "child_it->second: id not in id_to_node"

\* C14: when a record of offsets.txt points outside coords.txt the loader
\* stops before it makes an MBR of elements outside the list, and writes no
\* tree file.
C14_OffsetOutsideCoordsStopsLoader ==
    input.damage = "end_offset" =>
        /\ pc \in {"main", "crashed"}
        /\ outfile = <<>>

\* the engine that has loaded the tree, and the other one
LoadedBy == IF pc = "range_loop" THEN "range" ELSE "knn"
OtherEngine == IF pc = "range_loop" THEN "knn" ELSE "range"

\* C15: of one tree file the build_tree_from_file of the range engine and the
\* one of the kNN engine make the same tree: the same nodes with the same ids,
\* the same children in the same order, and the same x_low, x_high, y_low,
\* y_high for every node.
C15_EnginesReadTheSameTree ==
    Reloaded =>
        LET other == build_tree_from_file(outfile, OtherEngine)
        IN  /\ other.fault = "none"
            /\ other.root = troot
            /\ other.tree = tree

C15_Witness ==
    /\ Reloaded
    /\ LoadedBy = "range"
    /\ troot # Null
    /\ ~tree[troot].children_are_leafs
    /\ tree[troot].mbr.x_high # tree[troot].mbr.y_high
    /\ \E r \in LeafRefs(tree) : tree[r].mbr.x_low # tree[r].mbr.y_low

\* a line of the tree file as the readers take it apart: the flag, the id of
\* the node and the ids of its children
FileLine(line) ==
    LET numbers == extract_numbers(line)
        groups == (Len(numbers) - 2) \div 5
    IN  [internal_children |-> numbers[1] = <<"1">>,
         id |-> stoi(numbers[2]),
         child_ids |-> { stoi(numbers[5 * g + 3]) : g \in 0..(groups - 1) }]

\* C16: in the file that build_tree writes, a line whose children are Internal
\* nodes comes after the lines of all these children; the last line is the
\* root's, and the root is the only node of the file that is no line's child.
C16_ChildrenWrittenBeforeParents ==
    (pc \in {"build_tree", "loader_done"} /\ outfile # <<>>) =>
        LET lines == Eager([i \in 1..Len(outfile) |-> FileLine(outfile[i])])
            n == Len(lines)
            ChildOf(i, j) == lines[j].internal_children /\ lines[i].id \in lines[j].child_ids
        IN  /\ \A j \in 1..n : lines[j].internal_children =>
                   \A c \in lines[j].child_ids : \E i \in 1..(j - 1) : lines[i].id = c
            /\ pc = "loader_done" =>
                   /\ root # Null
                   /\ lines[n].id = heap[root].node_id
                   /\ \A j \in 1..n : ~ChildOf(n, j)
                   /\ \A i \in 1..(n - 1) : \E j \in 1..n : ChildOf(i, j)

C16_Witness ==
    /\ pc = "loader_done"
    /\ Len(outfile) > MAX_CHILDREN_PER_NODE + 1
    /\ FileLine(outfile[Len(outfile)]).internal_children
    /\ \E i \in 1..Len(outfile) : /\ FileLine(outfile[i]).internal_children
                                  /\ i < Len(outfile)

\* the scenario of three entries 1:[0,0,1,1], 2:[5,5,6,6], 3:[2,2,3,3]: the
\* range engine has answered the query [1,1,4,4]
ThreeEntriesQueried ==
    /\ input.layout = 0
    /\ pc = "range_loop"
    /\ printed # NoLine
    /\ printed.kind = "range"
    /\ query.mbr = MBR(One, One, 4 * One, 4 * One)

\* C17 as stated: the range query [1,1,4,4] over the three entries returns
\* exactly the entry 3.
C17_QueryReturnsOnlyEntry3 ==
    ThreeEntriesQueried => Range(printed.ids) = {3}

\* C17, amended: the range query [1,1,4,4] over the three entries returns
\* exactly the entries 1 and 3; entry 1 = [0,0,1,1] has the corner (1,1) in
\* common with the closed query rectangle.
C17_QueryReturnsEntries1And3 ==
    ThreeEntriesQueried =>
        /\ Range(printed.ids) = {1, 3}
        /\ printed.count = 2

C17_Witness ==
    /\ ThreeEntriesQueried
    /\ troot # Null
    /\ Cardinality(LeafRefs(tree)) = 3
    /\ 1 \in Range(printed.ids)

-----------------------------------------------------------------------------
(* Containment queries (query-processing/containment_queries/main.cpp)      *)
(*                                                                          *)
(* An item set is the vector of ints that load_item_sets_from_file makes of *)
(* one line.  A 64-bit word of a Signature and a cpp_int bitmap are both    *)
(* modelled by the set of the positions of their 1 bits: | is union, & is   *)
(* intersection, 0 is the empty set.  A QueryResult is a function from the  *)
(* query numbers that have an entry to sets of transaction ids.             *)

\* a transactions file has 0..MaxTransactions lines
MaxTransactions == 2
\* an item set has 0..MaxItemsPerSet items
MaxItemsPerSet == 2
\* a queries file has 1..MaxQueryLines lines
MaxQueryLines == 1

\* the item ids of the files; 65 lies in the second word of a signature
Items == {1, 2, 65}

\* the sequences over S of length 0..n
SeqsUpTo(S, n) == UNION { [1..m -> S] : m \in 0..n }

ItemSets == SeqsUpTo(Items, MaxItemsPerSet)
TransactionFiles == SeqsUpTo(ItemSets, MaxTransactions)
QueryFiles == SeqsUpTo(ItemSets, MaxQueryLines) \ {<<>>}

\* bits of a 64-bit word
WORD_BITS == 64

\* the ids 0 .. transactions.size() - 1
TransactionIds(ts) == 0..(Len(ts) - 1)

\* QueryResult: the set stored for query number q, empty when there is none
ResultOf(query_results, q) ==
    IF q \in DOMAIN query_results THEN query_results[q] ELSE {}

\* query_results[q].insert(t) for every t of ids, in increasing order
InsertAll(query_results, q, ids) ==
    IF ids = {} THEN query_results
    ELSE [x \in DOMAIN query_results \cup {q} |->
            IF x = q THEN ResultOf(query_results, q) \cup ids ELSE query_results[x]]

\* query_results[q] evaluated by the caller for printing: the entry exists afterwards
Touched(query_results, q) ==
    [x \in DOMAIN query_results \cup {q} |-> ResultOf(query_results, x)]

\* the shape shared by the four methods: every query for query_number = -1,
\* else the one query and the print of query_results[query_number].
\* single[i + 1] is what process_single_query_* on queries[i] adds to an
\* empty QueryResult (an entry for i, or nothing).
EveryQuery(single) ==
    [q \in { i \in 0..(Len(single) - 1) : i \in DOMAIN single[i + 1] } |-> single[q + 1][q]]

RunQueries(single, qn) ==
    IF qn = -1 THEN EveryQuery(single)
    ELSE Touched(single[qn + 1], qn)

\* process_single_query_naive
process_single_query_naive(ts, query_items, q, query_results) ==
    LET all_found(t) ==
            \A i \in 1..Len(query_items) :
                \E j \in 1..Len(ts[t + 1]) : query_items[i] = ts[t + 1][j]
    IN  InsertAll(query_results, q, { t \in TransactionIds(ts) : all_found(t) })

naive_method(ts, qs, qn) ==
    LET single == [i \in 1..Len(qs) |-> process_single_query_naive(ts, qs[i], i - 1, <<>>)]
    IN  RunQueries(single, qn)

\* compute_signature: the words 0 .. max(item / 64)
compute_signature(item_set) ==
    IF item_set = <<>> THEN <<>>
    ELSE LET last == SetMax({ item_set[i] \div WORD_BITS : i \in 1..Len(item_set) })
         IN  [w \in 1..(last + 1) |->
                { item_set[i] % WORD_BITS : i \in { j \in 1..Len(item_set) :
                                                     item_set[j] \div WORD_BITS = w - 1 } }]

transaction_signature_covers_query(transaction_sig, query_sig) ==
    IF Len(transaction_sig) < Len(query_sig) THEN FALSE
    ELSE \A i \in 1..Len(query_sig) :
            (transaction_sig[i] \cap query_sig[i]) = query_sig[i]

process_single_query_signature_file(transaction_signatures, query_signature, q, query_results) ==
    InsertAll(query_results, q,
              { t \in 0..(Len(transaction_signatures) - 1) :
                  transaction_signature_covers_query(transaction_signatures[t + 1],
                                                     query_signature) })

signature_file_method(ts, qs, qn) ==
    LET transaction_signatures == [t \in 1..Len(ts) |-> compute_signature(ts[t])]
        query_signatures == [i \in 1..Len(qs) |-> compute_signature(qs[i])]
        single == [i \in 1..Len(qs) |->
                     process_single_query_signature_file(transaction_signatures,
                                                         query_signatures[i], i - 1, <<>>)]
    IN  RunQueries(single, qn)

\* the items that occur in some transaction
ItemsOf(ts) == UNION { Range(ts[t]) : t \in 1..Len(ts) }

\* build_item_transactions_bit_map: bit i of the bitmap of an item is set
\* when transaction i holds the item
build_item_transactions_bit_map(ts) ==
    [item \in ItemsOf(ts) |-> { i \in TransactionIds(ts) : item \in Range(ts[i + 1]) }]

\* the loop over query_items_set[1..] of process_single_query_exact_bitslice
RECURSIVE BitsliceLoop(_, _, _, _)
BitsliceLoop(bit_map, query_items_set, i, result_bitmap) ==
    IF i > Len(query_items_set) THEN result_bitmap
    ELSE IF query_items_set[i] \notin DOMAIN bit_map THEN {}
    ELSE BitsliceLoop(bit_map, query_items_set, i + 1,
                      result_bitmap \cap bit_map[query_items_set[i]])

process_single_query_exact_bitslice(bit_map, query_items_set, q, query_results) ==
    IF query_items_set = <<>> THEN query_results
    ELSE IF query_items_set[1] \notin DOMAIN bit_map THEN query_results
    ELSE InsertAll(query_results, q,
                   BitsliceLoop(bit_map, query_items_set, 2, bit_map[query_items_set[1]]))

exact_bitslice_signature_file(ts, qs, qn) ==
    LET bit_map == build_item_transactions_bit_map(ts)
        single == [i \in 1..Len(qs) |->
                     process_single_query_exact_bitslice(bit_map, qs[i], i - 1, <<>>)]
    IN  RunQueries(single, qn)

\* the elements of a std::set<int> in iteration order
RECURSIVE Ascending(_)
Ascending(S) ==
    IF S = {} THEN <<>> ELSE <<SetMin(S)>> \o Ascending(S \ {SetMin(S)})

\* build_inverted_index: item -> std::set of transaction ids
build_inverted_index(ts) ==
    [item \in ItemsOf(ts) |-> { i \in TransactionIds(ts) : item \in Range(ts[i + 1]) }]

\* the while loop that intersects two sorted vectors (1-based pointers)
RECURSIVE IntersectSorted(_, _, _, _, _)
IntersectSorted(current, candidate, v1_pointer, v2_pointer, temp) ==
    IF ~(v1_pointer <= Len(current) /\ v2_pointer <= Len(candidate)) THEN temp
    ELSE IF current[v1_pointer] < candidate[v2_pointer]
    THEN IntersectSorted(current, candidate, v1_pointer + 1, v2_pointer, temp)
    ELSE IF current[v1_pointer] > candidate[v2_pointer]
    THEN IntersectSorted(current, candidate, v1_pointer, v2_pointer + 1, temp)
    ELSE IntersectSorted(current, candidate, v1_pointer + 1, v2_pointer + 1,
                         Append(temp, current[v1_pointer]))

\* the loop over query_items_set[1..] of process_single_query_inverted_index
RECURSIVE InvertedLoop(_, _, _, _)
InvertedLoop(inverted_index, query_items_set, i, current) ==
    IF i > Len(query_items_set) THEN current
    ELSE IF query_items_set[i] \notin DOMAIN inverted_index THEN <<>>
    ELSE LET candidate == Ascending(inverted_index[query_items_set[i]])
             temp == IntersectSorted(current, candidate, 1, 1, <<>>)
         IN  IF temp = <<>> THEN temp
             ELSE InvertedLoop(inverted_index, query_items_set, i + 1, temp)

process_single_query_inverted_index(inverted_index, query_items_set, q, query_results) ==
    IF query_items_set = <<>> THEN query_results
    ELSE IF query_items_set[1] \notin DOMAIN inverted_index THEN query_results
    ELSE InsertAll(query_results, q,
                   Range(InvertedLoop(inverted_index, query_items_set, 2,
                                      Ascending(inverted_index[query_items_set[1]]))))

inverted_file_with_intersection(ts, qs, qn) ==
    LET inverted_index == build_inverted_index(ts)
        single == [i \in 1..Len(qs) |->
                     process_single_query_inverted_index(inverted_index, qs[i], i - 1, <<>>)]
    IN  RunQueries(single, qn)

\* indices of method_results (the vector is 0-based in the program)
NAIVE == 0
SIGNATURE_FILE == 1
EXACT_BITSLICE_SIGNATURE_FILE == 2
INVERTED_FILE == 3

\* main of the containment program with method -1: the files are loaded and
\* run_method has made std::vector<QueryResult> method_results(4)
InitContainment ==
    /\ RtreeIdle
    /\ RelationalIdle
    /\ fault = "none"
    /\ pc = "naive_method"
    /\ transactions \in TransactionFiles
    /\ queries \in QueryFiles
    /\ query_number \in -1..(Len(queries) - 1)
    /\ top_k = 0
    /\ method_results = [m \in 1..4 |-> <<>>]

\* run_method, case -1: method_results[NAIVE] = naive_method(...)
NaiveMethod ==
    /\ pc = "naive_method"
    /\ method_results' = [method_results EXCEPT
                              ![NAIVE + 1] = naive_method(transactions, queries, query_number)]
    /\ pc' = "signature_file_method"
    /\ UNCHANGED <<transactions, queries, query_number, top_k, fault>>
    /\ UNCHANGED <<rtreeVars, relationalVars>>

\* run_method, case -1: method_results[SIGNATURE_FILE] = signature_file_method(...)
SignatureFileMethod ==
    /\ pc = "signature_file_method"
    /\ method_results' = [method_results EXCEPT
                              ![SIGNATURE_FILE + 1] = signature_file_method(transactions, queries, query_number)]
    /\ pc' = "exact_bitslice_signature_file"
    /\ UNCHANGED <<transactions, queries, query_number, top_k, fault>>
    /\ UNCHANGED <<rtreeVars, relationalVars>>

\* run_method, case -1: method_results[EXACT_BITSLICE_SIGNATURE_FILE] = exact_bitslice_signature_file(...)
ExactBitsliceSignatureFile ==
    /\ pc = "exact_bitslice_signature_file"
    /\ method_results' = [method_results EXCEPT
                              ![EXACT_BITSLICE_SIGNATURE_FILE + 1] = exact_bitslice_signature_file(transactions, queries, query_number)]
    /\ pc' = "inverted_file_with_intersection"
    /\ UNCHANGED <<transactions, queries, query_number, top_k, fault>>
    /\ UNCHANGED <<rtreeVars, relationalVars>>

\* run_method, case -1: method_results[INVERTED_FILE] = inverted_file_with_intersection(...)
InvertedFileWithIntersection ==
    /\ pc = "inverted_file_with_intersection"
    /\ method_results' = [method_results EXCEPT
                              ![INVERTED_FILE + 1] = inverted_file_with_intersection(transactions, queries, query_number)]
    /\ pc' = "run_method_returned"
    /\ UNCHANGED <<transactions, queries, query_number, top_k, fault>>
    /\ UNCHANGED <<rtreeVars, relationalVars>>

NextContainment ==
    \/ NaiveMethod
    \/ SignatureFileMethod
    \/ ExactBitsliceSignatureFile
    \/ InvertedFileWithIntersection

SpecContainment == InitContainment /\ [][NextContainment]_vars

\* the query numbers run_method has processed
ProcessedQueries ==
    IF query_number = -1 THEN 0..(Len(queries) - 1) ELSE {query_number}

\* C18: for every query (the empty query and queries with items of no
\* transaction included) the Signature File, the Exact Bitslice and the
\* Inverted File method each return the set of transaction ids that the
\* Naive method returns.
C18_MethodsAgreeWithNaive ==
    pc = "run_method_returned" =>
        \A q \in ProcessedQueries :
            \A m \in {SIGNATURE_FILE, EXACT_BITSLICE_SIGNATURE_FILE, INVERTED_FILE} :
                ResultOf(method_results[m + 1], q) = ResultOf(method_results[NAIVE + 1], q)

-----------------------------------------------------------------------------
(* Relevance queries with TRF weights (the program of part_001)             *)
(*                                                                          *)
(* A weight is the double total_transactions / count.  It is modelled by    *)
(* the exact quotient, carried as an integer number of 1/WeightUnit; for    *)
(* the transaction counts explored every weight is a multiple of 1/2 and    *)
(* every sum of count * weight is exact in a double too.  A QueryResult is  *)
(* a function from query numbers to RelevanceScoreLists, the sequences of   *)
(* <<relevance, transaction id>>.                                           *)

\* the program argument top_k ranges over -1..MaxTopK
MaxTopK == 2

RECURSIVE Gcd(_, _)
Gcd(a, b) == IF b = 0 THEN a ELSE Gcd(b, a % b)

\* the least common multiple of 1..n
RECURSIVE LcmUpTo(_)
LcmUpTo(n) == IF n <= 1 THEN 1 ELSE (LcmUpTo(n - 1) * n) \div Gcd(LcmUpTo(n - 1), n)

\* relevance 1.0, in model units
WeightUnit == LcmUpTo(MaxTransactions + 1)

\* the number of elements of seq equal to x
Occurrences(seq, x) == Cardinality({ i \in 1..Len(seq) : seq[i] = x })

\* the sum of the values of the function f on the finite set S
RECURSIVE SumOver(_, _)
SumOver(f, S) ==
    IF S = {} THEN 0
    ELSE LET x == CHOOSE y \in S : TRUE IN f[x] + SumOver(f, S \ {x})

\* build_relevance_inverted_index, the inverted index: item -> the postings
\* [tid, frequency] sorted by transaction id
InvertedIndexOf(ts) ==
    [item \in ItemsOf(ts) |->
        LET tids == Ascending({ t \in TransactionIds(ts) : item \in Range(ts[t + 1]) })
        IN  [i \in 1..Len(tids) |->
                [tid |-> tids[i], occ |-> Occurrences(ts[tids[i] + 1], item)]]]

\* build_relevance_inverted_index, the weights:
\* trf_weights[item] = static_cast<double>(total_transactions) / count
TRFWeightsOf(ts, total_transactions) ==
    [item \in ItemsOf(ts) |->
        LET count == Cardinality({ t \in TransactionIds(ts) : item \in Range(ts[t + 1]) })
        IN  (total_transactions * WeightUnit) \div count]

\* std::pair<double, int> a > b
PairGreater(a, b) == a[1] > b[1] \/ (a[1] = b[1] /\ a[2] > b[2])

\* std::ranges::sort(scores, std::greater<>()) on scores of distinct pairs
RECURSIVE SortDescending(_)
SortDescending(S) ==
    IF S = {} THEN <<>>
    ELSE LET top == CHOOSE a \in S : \A b \in S \ {a} : PairGreater(a, b)
         IN  <<top>> \o SortDescending(S \ {top})

\* if (top_k > 0 && scores.size() > top_k) scores.resize(top_k)
LimitTopK(scores, k_) ==
    IF k_ > 0 /\ Len(scores) > k_ THEN SubSeq(scores, 1, k_) ELSE scores

\* run_naive_single
run_naive_single(query_items, ts, trf_weights, k_) ==
    LET \* occ[item]: how often an item of the query occurs in transaction tid
        occ(tid) == [item \in { x \in Range(ts[tid + 1]) : x \in Range(query_items) } |->
                        Occurrences(ts[tid + 1], item)]
        relevance(tid) ==
            LET term == [item \in DOMAIN occ(tid) |->
                            IF item \in DOMAIN trf_weights
                            THEN occ(tid)[item] * trf_weights[item] ELSE 0]
            IN  SumOver(term, DOMAIN occ(tid))
        scores == { <<relevance(tid), tid>> : tid \in { t \in TransactionIds(ts) : relevance(t) > 0 } }
    IN  LimitTopK(SortDescending(scores), k_)

\* what one query item adds to the map of build_detailed_map_from_union:
\* result[tid][item] += occ for every posting of the item
AddPostings(result, item, postings) ==
    LET tids == { postings[i].tid : i \in 1..Len(postings) }
        OccOf(tid) == (CHOOSE i \in 1..Len(postings) : postings[i].tid = tid)
        Old(tid, x) == IF tid \in DOMAIN result /\ x \in DOMAIN result[tid]
                       THEN result[tid][x] ELSE 0
    IN  [tid \in DOMAIN result \cup tids |->
            IF tid \notin tids THEN result[tid]
            ELSE [x \in (IF tid \in DOMAIN result THEN DOMAIN result[tid] ELSE {}) \cup {item} |->
                    IF x = item THEN Old(tid, x) + postings[OccOf(tid)].occ
                    ELSE result[tid][x]]]

\* build_detailed_map_from_union: for (int item : query_items) ...
RECURSIVE build_detailed_map_from_union(_, _)
build_detailed_map_from_union(query_items, index) ==
    IF query_items = <<>> THEN <<>>
    ELSE LET result == build_detailed_map_from_union(Front(query_items), index)
             item == Last(query_items)
         IN  IF item \notin DOMAIN index THEN result
             ELSE AddPostings(result, item, index[item])

\* run_inverted_single
run_inverted_single(query_items, inverted_index, trf_weights, k_) ==
    LET merged == build_detailed_map_from_union(query_items, inverted_index)
        relevance(tid) ==
            LET term == [item_id \in DOMAIN merged[tid] |->
                            IF item_id \in DOMAIN trf_weights
                            THEN merged[tid][item_id] * trf_weights[item_id] ELSE 0]
            IN  SumOver(term, DOMAIN merged[tid])
        scores == { <<relevance(tid), tid>> : tid \in { t \in DOMAIN merged : relevance(t) > 0 } }
    IN  LimitTopK(SortDescending(scores), k_)

\* run_naive_method / run_inverted_method: results[i] for every query when
\* query_number is -1, else results[query_number]
\* single[i + 1] is run_*_single on queries[i]
RunRelevanceQueries(single, qn) ==
    [i \in (IF qn = -1 THEN 0..(Len(single) - 1) ELSE {qn}) |-> single[i + 1]]

run_naive_method(qs, ts, trf_weights, qn, k_) ==
    LET single == [i \in 1..Len(qs) |-> run_naive_single(qs[i], ts, trf_weights, k_)]
    IN  RunRelevanceQueries(single, qn)

run_inverted_method(qs, inverted_index, trf_weights, qn, k_) ==
    LET single == [i \in 1..Len(qs) |->
                     run_inverted_single(qs[i], inverted_index, trf_weights, k_)]
    IN  RunRelevanceQueries(single, qn)

\* indices of the vector results of run_method
NAIVE_INDEX == 0
INVERTED_INDEX == 1

\* main of the relevance program with method -1: the files are loaded, the
\* index and the weights are built, and run_method has made results(2)
InitRelevance ==
    /\ RtreeIdle
    /\ RelationalIdle
    /\ fault = "none"
    /\ pc = "run_naive_method"
    /\ transactions \in TransactionFiles
    /\ queries \in QueryFiles
    /\ query_number \in -1..(Len(queries) - 1)
    /\ top_k \in -1..MaxTopK
    /\ method_results = [m \in 1..2 |-> <<>>]

\* run_method, case -1: results[NAIVE_INDEX] = run_naive_method(...)
RunNaiveMethod ==
    /\ pc = "run_naive_method"
    /\ method_results' = [method_results EXCEPT
            ![NAIVE_INDEX + 1] =
                run_naive_method(queries, transactions,
                                 TRFWeightsOf(transactions, Len(transactions)),
                                 query_number, top_k)]
    /\ pc' = "run_inverted_method"
    /\ UNCHANGED <<transactions, queries, query_number, top_k, fault>>
    /\ UNCHANGED <<rtreeVars, relationalVars>>

\* run_method, case -1: results[INVERTED_INDEX] = run_inverted_method(...)
RunInvertedMethod ==
    /\ pc = "run_inverted_method"
    /\ method_results' = [method_results EXCEPT
            ![INVERTED_INDEX + 1] =
                run_inverted_method(queries, InvertedIndexOf(transactions),
                                    TRFWeightsOf(transactions, Len(transactions)),
                                    query_number, top_k)]
    /\ pc' = "relevance_returned"
    /\ UNCHANGED <<transactions, queries, query_number, top_k, fault>>
    /\ UNCHANGED <<rtreeVars, relationalVars>>

NextRelevance ==
    \/ RunNaiveMethod
    \/ RunInvertedMethod

SpecRelevance == InitRelevance /\ [][NextRelevance]_vars

\* rel(query, transaction): the sum, over the distinct items of the query
\* that occur in the transaction, of occurrences * TRF(item)
Rel(query_items, tid) ==
    LET trf == TRFWeightsOf(transactions, Len(transactions))
        present == Range(query_items) \cap Range(transactions[tid + 1])
        term == [item \in present |-> Occurrences(transactions[tid + 1], item) * trf[item]]
    IN  SumOver(term, present)

\* C19: for every query (queries that repeat an item included) and every
\* top_k, run_inverted_single returns the ranked list of <<relevance, tid>>
\* that run_naive_single returns, and each relevance in it is the sum, over the
\* distinct query items present in the transaction, of occurrences * TRF(item).
C19_InvertedRanksAsNaive ==
    pc = "relevance_returned" =>
        \A q \in ProcessedQueries :
            LET naive == method_results[NAIVE_INDEX + 1][q]
                inverted == method_results[INVERTED_INDEX + 1][q]
            IN  /\ inverted = naive
                /\ \A i \in 1..Len(inverted) :
                       inverted[i][1] = Rel(queries[q + 1], inverted[i][2])

-----------------------------------------------------------------------------
(* Relational operators on sorted TSV files (the program of part_000)       *)
(*                                                                          *)
(* A file is the sequence of its lines, a line the sequence of its          *)
(* characters: the key, a tab, the decimal value.  An ifstream is the file  *)
(* with the number of lines read so far.                                    *)

\* the file R has 0..MaxRLines lines
MaxRLines == 3
\* the file S has 0..MaxSLines lines
MaxSLines == 2

\* the keys (column_1) and the values (column_2) of the records of the files
RecordKeys == { <<"a">>, <<"b">> }
RecordValues == {1, 2}

\* a line of a TSV file
RecordLine(column_1, column_2) == column_1 \o <<"\t">> \o IntToString(column_2)

\* the key of a line: the characters before the tab
KeyOf(line) ==
    SubSeq(line, 1, (CHOOSE i \in 1..Len(line) : line[i] = "\t" /\ \A j \in 1..(i - 1) : line[j] # "\t") - 1)

\* the code of a character of the files, as unsigned char
CharCode(c) ==
    IF c = "\t" THEN 9
    ELSE IF isdigit(c) THEN 48 + DigitVal(c)
    ELSE IF c = "a" THEN 97
    ELSE 98

\* std::string a < b
LineLess(a, b) ==
    LET m == Min2(Len(a), Len(b))
        diff == { i \in 1..m : a[i] # b[i] }
    IN  IF diff = {} THEN Len(a) < Len(b)
        ELSE CharCode(a[SetMin(diff)]) < CharCode(b[SetMin(diff)])

\* the files of at most n lines that are sorted on the key
SortedFiles(n) ==
    { f \in SeqsUpTo({ RecordLine(key, v) : key \in RecordKeys, v \in RecordValues }, n) :
        \A i \in 1..(Len(f) - 1) : ~LineLess(KeyOf(f[i + 1]), KeyOf(f[i])) }

\* std::getline(file, line) on a stream that has read tellg lines: whether a
\* line was read, the string afterwards (erased when nothing is left), and
\* the lines read
getline(file, tellg) ==
    IF tellg < Len(file)
    THEN [success |-> TRUE, line |-> file[tellg + 1], tellg |-> tellg + 1]
    ELSE [success |-> FALSE, line |-> <<>>, tellg |-> tellg]

\* main has called R_difference_S(r_sorted, s_sorted, "RdifferenceS.tsv")
InitDifference ==
    /\ RtreeIdle
    /\ QueryProgramsIdle
    /\ fault = "none"
    /\ pc = "R_difference_S"
    /\ r_sorted \in SortedFiles(MaxRLines)
    /\ s_sorted \in SortedFiles(MaxSLines)
    /\ r_tellg = 0
    /\ s_tellg = 0
    /\ r_line = <<>>
    /\ s_line = <<>>
    /\ r_read_succeed = FALSE
    /\ s_read_succeed = FALSE
    /\ last_written_record = <<>>
    /\ r_difference_s = <<>>
    /\ r_union_s = <<>>

\* getline on R into r_line, r_read_succeed
AdvanceR ==
    LET g == getline(r_sorted, r_tellg)
    IN  /\ r_read_succeed' = g.success
        /\ r_line' = g.line
        /\ r_tellg' = g.tellg

\* getline on S into s_line, s_read_succeed
AdvanceS ==
    LET g == getline(s_sorted, s_tellg)
    IN  /\ s_read_succeed' = g.success
        /\ s_line' = g.line
        /\ s_tellg' = g.tellg

\* R_difference_S up to its loop: the files are opened, the first line of each is read
DifferenceOpen ==
    /\ pc = "R_difference_S"
    /\ AdvanceR
    /\ AdvanceS
    /\ pc' = "difference_loop"
    /\ UNCHANGED <<r_sorted, s_sorted, last_written_record, r_difference_s, fault>>
    /\ UNCHANGED r_union_s
    /\ UNCHANGED <<rtreeVars, queryVars>>

\* R_difference_S: one iteration of while (r_read_succeed)
DifferenceStep ==
    /\ pc = "difference_loop"
    /\ r_read_succeed
    /\ IF ~s_read_succeed \/ LineLess(r_line, s_line)
       THEN /\ IF r_line # last_written_record
               THEN /\ r_difference_s' = Append(r_difference_s, r_line)
                    /\ last_written_record' = r_line
               ELSE UNCHANGED <<r_difference_s, last_written_record>>
            /\ AdvanceR
            /\ UNCHANGED <<s_line, s_read_succeed, s_tellg>>
       ELSE IF LineLess(s_line, r_line)
       THEN /\ AdvanceS
            /\ UNCHANGED <<r_line, r_read_succeed, r_tellg, r_difference_s, last_written_record>>
       ELSE /\ AdvanceR
            /\ AdvanceS
            /\ UNCHANGED <<r_difference_s, last_written_record>>
    /\ UNCHANGED <<pc, r_sorted, s_sorted, fault, r_union_s>>
    /\ UNCHANGED <<rtreeVars, queryVars>>

\* R_difference_S: the loop ends, "Difference Completed." is printed
DifferenceCompleted ==
    /\ pc = "difference_loop"
    /\ ~r_read_succeed
    /\ pc' = "difference_completed"
    /\ UNCHANGED <<fault, relationalVars>>
    /\ UNCHANGED <<rtreeVars, queryVars>>

NextDifference ==
    \/ DifferenceOpen
    \/ DifferenceStep
    \/ DifferenceCompleted

SpecDifference == InitDifference /\ [][NextDifference]_vars

\* C20: for files R and S sorted on the key, with or without repeated
\* records, R_difference_S writes exactly the distinct records of R that are
\* not in S: no record of S is written and no record is written twice.
C20_DifferenceIsRMinusS ==
    pc = "difference_completed" =>
        /\ Range(r_difference_s) = Range(r_sorted) \ Range(s_sorted)
        /\ Cardinality(Range(r_difference_s)) = Len(r_difference_s)

\* main has called union_(r_sorted, s_sorted, "RunionS.tsv")
InitUnion ==
    /\ RtreeIdle
    /\ QueryProgramsIdle
    /\ fault = "none"
    /\ pc = "union_"
    /\ r_sorted \in SortedFiles(MaxRLines)
    /\ s_sorted \in SortedFiles(MaxSLines)
    /\ r_tellg = 0
    /\ s_tellg = 0
    /\ r_line = <<>>
    /\ s_line = <<>>
    /\ r_read_succeed = FALSE
    /\ s_read_succeed = FALSE
    /\ last_written_record = <<>>
    /\ r_difference_s = <<>>
    /\ r_union_s = <<>>

\* union_ up to its loop: the files are opened, the first line of each is
\* read (r_read_success and s_read_success of union_ are held in
\* r_read_succeed and s_read_succeed)
UnionOpen ==
    /\ pc = "union_"
    /\ AdvanceR
    /\ AdvanceS
    /\ pc' = "union_loop"
    /\ UNCHANGED <<r_sorted, s_sorted, last_written_record, r_difference_s, r_union_s, fault>>
    /\ UNCHANGED <<rtreeVars, queryVars>>

\* union_: one iteration of while (r_read_success || s_read_success)
UnionStep ==
    /\ pc = "union_loop"
    /\ r_read_succeed \/ s_read_succeed
    /\ \E record_to_write \in {r_line, s_line} :
         /\ IF r_read_succeed /\ s_read_succeed
            THEN IF LineLess(r_line, s_line)
                 THEN /\ record_to_write = r_line
                      /\ AdvanceR
                      /\ UNCHANGED <<s_line, s_read_succeed, s_tellg>>
                 ELSE IF LineLess(s_line, r_line)
                 THEN /\ record_to_write = s_line
                      /\ AdvanceS
                      /\ UNCHANGED <<r_line, r_read_succeed, r_tellg>>
                 ELSE /\ record_to_write = r_line
                      /\ AdvanceR
                      /\ AdvanceS
            ELSE IF r_read_succeed
            THEN /\ record_to_write = r_line
                 /\ AdvanceR
                 /\ UNCHANGED <<s_line, s_read_succeed, s_tellg>>
            ELSE /\ record_to_write = s_line
                 /\ AdvanceS
                 /\ UNCHANGED <<r_line, r_read_succeed, r_tellg>>
         /\ IF record_to_write # last_written_record
            THEN /\ r_union_s' = Append(r_union_s, record_to_write)
                 /\ last_written_record' = record_to_write
            ELSE UNCHANGED <<r_union_s, last_written_record>>
    /\ UNCHANGED <<pc, r_sorted, s_sorted, fault, r_difference_s>>
    /\ UNCHANGED <<rtreeVars, queryVars>>

\* union_: the loop ends, "Union Completed." is printed
UnionCompleted ==
    /\ pc = "union_loop"
    /\ ~(r_read_succeed \/ s_read_succeed)
    /\ pc' = "union_completed"
    /\ UNCHANGED <<fault, relationalVars>>
    /\ UNCHANGED <<rtreeVars, queryVars>>

NextUnion ==
    \/ UnionOpen
    \/ UnionStep
    \/ UnionCompleted

SpecUnion == InitUnion /\ [][NextUnion]_vars

\* C21: for files R and S sorted on the key (the first column) only, union_
\* writes every record of R or of S exactly once: every such record is in the
\* output and no line of the output is repeated.
C21_UnionWithoutDuplicates ==
    pc = "union_completed" =>
        /\ Range(r_union_s) = Range(r_sorted) \cup Range(s_sorted)
        /\ Cardinality(Range(r_union_s)) = Len(r_union_s)

-----------------------------------------------------------------------------
(* The remainders of a level in create_upper_level *)

\* a call of create_upper_level has returned: nodes is its argument, nodes'
\* the level it made
LevelReturned == pc = "build_tree" /\ pc' = "build_tree" /\ nodes' # nodes

\* C22: when the last group of a level has r < MIN_CHILDREN_PER_NODE members
\* and a full node was made before it, create_upper_level moves exactly
\* MIN_CHILDREN_PER_NODE - r children, the last ones of the last full node, to
\* the front of the last group, in their order; the last node then has 8
\* children, the full node 20 - (8 - r), and the children of the level's nodes,
\* one after the other, are the nodes given.
C22_BorrowedChildrenKeepOrder ==
    [][ LET n == Len(nodes)
            r == n % MAX_CHILDREN_PER_NODE
            q == n \div MAX_CHILDREN_PER_NODE
            moved == MIN_CHILDREN_PER_NODE - r
        IN  (LevelReturned /\ r > 0 /\ r < MIN_CHILDREN_PER_NODE /\ q >= 1) =>
                /\ Len(nodes') = q + 1
                /\ heap'[nodes'[q + 1]].children =
                       SubSeq(nodes, q * MAX_CHILDREN_PER_NODE - moved + 1, n)
                /\ Len(heap'[nodes'[q + 1]].children) = MIN_CHILDREN_PER_NODE
                /\ heap'[nodes'[q]].children =
                       SubSeq(nodes, (q - 1) * MAX_CHILDREN_PER_NODE + 1,
                              q * MAX_CHILDREN_PER_NODE - moved)
                /\ Len(heap'[nodes'[q]].children) = MAX_CHILDREN_PER_NODE - moved
                /\ Concat([i \in 1..Len(nodes') |-> heap'[nodes'[i]].children]) = nodes
      ]_vars

C22_Witness ==
    /\ pc = "build_tree"
    /\ Len(entries) = MAX_CHILDREN_PER_NODE + 3
    /\ Len(nodes) = 2
    /\ Len(heap[nodes[2]].children) = MIN_CHILDREN_PER_NODE
    /\ Len(heap[nodes[1]].children) = MAX_CHILDREN_PER_NODE - 5

\* C23: when the last group of a level has r members, MIN_CHILDREN_PER_NODE
\* <= r < MAX_CHILDREN_PER_NODE, and a full node was made before it,
\* create_upper_level moves no child: it returns, the last full node has its
\* 20 children and the last node its r.
C23_NoBorrowingFromEightUp ==
    [][ LET n == Len(nodes)
            r == n % MAX_CHILDREN_PER_NODE
            q == n \div MAX_CHILDREN_PER_NODE
        IN  (pc = "build_tree" /\ heap' # heap /\ r >= MIN_CHILDREN_PER_NODE /\ q >= 1) =>
                /\ pc' = "build_tree"
                /\ Len(nodes') = q + 1
                /\ Len(heap'[nodes'[q]].children) = MAX_CHILDREN_PER_NODE
                /\ Len(heap'[nodes'[q + 1]].children) = r
      ]_vars

(***************************************************************************)
(* The order of entries with equal keys                                    *)
(***************************************************************************)

C25_EqualDistancesInInsertionOrder ==
    pc = "knn_search" =>
        LET PoppedAt(n) == CHOOSE i \in 1..Len(popped) : popped[i].node = n
            ParentOf(n) == CHOOSE m \in 1..Len(tree) :
                               /\ tree[m].kind = "internal"
                               /\ n \in Range(tree[m].children)
            PlaceOf(n) == CHOOSE c \in 1..Len(tree[ParentOf(n)].children) :
                               tree[ParentOf(n)].children[c] = n
            PushedWith(n) == IF n = troot THEN 0 ELSE PoppedAt(ParentOf(n))
            PushedBefore(a, b) ==
                \/ PushedWith(a) < PushedWith(b)
                \/ /\ PushedWith(a) = PushedWith(b)
                   /\ a # troot /\ b # troot
                   /\ PlaceOf(a) < PlaceOf(b)
        IN  \A i, j \in 1..Len(popped) :
                (i < j /\ popped[i].distance = popped[j].distance)
                    => PushedBefore(popped[i].node, popped[j].node)

\* C26: in the search loop no entry is taken from the queue once k Leaves
\* are collected; a node is pushed at most once per query; a node other than
\* the root is pushed only by its parent, an Internal node taken from the
\* queue earlier; and no more entries are taken than the tree has nodes.
\* (Stated of the entry taken last: the earlier ones were the last in the
\* states before.)
C26_SearchStopsAtKLeaves ==
    pc = "knn_search" =>
        LET m == Len(popped)
            taken == [i \in 1..m |-> popped[i].node]
            waiting == [i \in 1..Len(pq) |-> pq[i].node]
            leaves == { j \in 1..m : tree[taken[j]].kind = "leaf" }
            PushedBy(S) == UNION { Range(tree[taken[i]].children) : i \in S }
        IN  /\ Len(kn_leaf_ids) = Cardinality(leaves)
            /\ m > 0 => Cardinality(leaves \ {m}) < SizeT(k)
            /\ Cardinality(Range(taken \o waiting)) = m + Len(pq)
            /\ Range(waiting) \ {troot} \subseteq PushedBy((1..m) \ leaves)
            /\ (m > 0 /\ taken[m] # troot) =>
                   taken[m] \in PushedBy((1..(m - 1)) \ leaves)
            /\ m <= Len(tree)

\* k Leaves are collected while an Internal node still waits in the queue
C26_Witness ==
    /\ pc = "knn_search"
    /\ k = 2
    /\ Len(kn_leaf_ids) = 2
    /\ \E i \in 1..Len(pq) : tree[pq[i].node].kind = "internal"

(***************************************************************************)
(* A file of queries                                                       *)
(***************************************************************************)

\* C27: a query of a batch leaves the tree as it is; the line printed for it
\* has the ids that the query gives when run alone on the tree, and its
\* index is the number of query lines before it; the result vector and the
\* queue of a query start empty (the queue with the root alone).
C27_QueriesAreIndependent ==
    [][ /\ (pc \in {"range_loop", "knn_loop", "knn_search"}
               /\ pc' \in {"range_loop", "knn_loop", "knn_search"})
            => (tree' = tree /\ troot' = troot)
        /\ (pc = "range_loop" /\ pc' = "range_loop")
            => /\ printed' = [kind |-> "range", index |-> query_id,
                              count |-> Len(printed'.ids),
                              ids |-> range_query(tree, troot, query'.mbr, <<>>)]
               /\ query_id' = query_id + 1
               /\ results' = <<>>
        /\ (pc = "knn_loop" /\ pc' = "knn_search")
            => /\ Len(pq') = 1 /\ pq'[1].node = troot
               /\ kn_leaf_ids' = <<>>
        /\ (pc = "knn_search" /\ pc' = "knn_loop")
            => /\ printed' = [kind |-> "knn", index |-> query_id,
                              count |-> Len(printed'.ids),
                              ids |-> kn_search(tree, k, query.x, query.y,
                                         PQPush(<<>>, [node |-> troot,
                                                distance |-> min_dist(tree[troot].mbr,
                                                                      query.x, query.y)]),
                                         <<>>)]
               /\ query_id' = query_id + 1
      ]_vars

\* the second query of a kNN batch is answered with k Leaves, entries of the
\* searches still in the queue
C27_Witness ==
    /\ pc = "knn_loop"
    /\ query_id = 2
    /\ printed.kind = "knn" /\ printed.index = 1 /\ printed.count = 2
    /\ pq # <<>>

(***************************************************************************)
(* min_dist as a lower bound                                               *)
(***************************************************************************)

\* C28: for the query point p of a search and every Internal node N of the
\* tree read from the file, min_dist(N.mbr, p) <= min_dist(C.mbr, p) for
\* every child C of N; and min_dist of a node is zero exactly when p lies in
\* the node's closed rectangle.
C28_MinDistIsAdmissible ==
    (pc = "knn_search" /\ popped = <<>>) =>
        LET d == [n \in 1..Len(tree) |-> min_dist(tree[n].mbr, query.x, query.y)]
        IN  /\ \A n \in 1..Len(tree) :
                   \A i \in 1..Len(tree[n].children) :
                       ~DistLess(d[tree[n].children[i]], d[n])
            /\ \A n \in 1..Len(tree) :
                   (d[n] = <<0, 0, 0>>) <=>
                       /\ tree[n].mbr.x_low <= query.x /\ query.x <= tree[n].mbr.x_high
                       /\ tree[n].mbr.y_low <= query.y /\ query.y <= tree[n].mbr.y_high

\* a search in a tree of three levels from a point outside the root's
\* rectangle, with a child farther than its parent and a node holding the
\* point
C28_Witness ==
    /\ pc = "knn_search" /\ popped = <<>>
    /\ \E n \in 1..Len(tree) :
           /\ tree[n].kind = "internal" /\ n # troot
           /\ \E i \in 1..Len(tree[n].children) :
                  DistLess(min_dist(tree[n].mbr, query.x, query.y),
                           min_dist(tree[tree[n].children[i]].mbr, query.x, query.y))
    /\ \E n \in 1..Len(tree) : min_dist(tree[n].mbr, query.x, query.y) = <<0, 0, 0>>
    /\ \E n \in 1..Len(tree) : min_dist(tree[n].mbr, query.x, query.y) # <<0, 0, 0>>

(***************************************************************************)
(* The loop of build_tree                                                  *)
(***************************************************************************)

\* C29: each round of the loop of build_tree, on n > 1 nodes, gets from
\* create_upper_level ceil(n / 20) nodes, fewer than n; with one node left
\* the loop ends and build_tree returns that node, the root, which has at
\* least one child when there were two entries or more.
C29_EveryLevelShrinksToARoot ==
    [][ /\ (pc = "build_tree" /\ Len(nodes) > 1)
            => /\ pc' = "build_tree"
               /\ Len(nodes') = (Len(nodes) + MAX_CHILDREN_PER_NODE - 1)
                                    \div MAX_CHILDREN_PER_NODE
               /\ Len(nodes') < Len(nodes)
        /\ (pc = "build_tree" /\ Len(nodes) = 1 /\ Len(entries) >= 2)
            => /\ pc' = "loader_done"
               /\ root' = nodes[1]
               /\ heap[nodes[1]].kind = "internal"
               /\ Len(heap[nodes[1]].children) >= 1
      ]_vars

(***************************************************************************)
(* A negative k                                                            *)
(***************************************************************************)

\* C30: with k < 0 the bound static_cast<size_t>(k) of the search loop is
\* larger than any number of Leaves, so the loop ends only with the queue
\* empty, and the line printed has every Leaf of the tree, each once.
C30_NegativeKReturnsEveryLeaf ==
    k < 0 =>
        /\ pc = "knn_search" =>
               /\ SizeT(k) > Cardinality(LeafRefs(tree))
               /\ Len(kn_leaf_ids) < SizeT(k)
        /\ (pc = "knn_loop" /\ printed.kind = "knn") =>
               /\ pq = <<>>
               /\ printed.count = Cardinality(LeafRefs(tree))
               /\ Range(printed.ids) = { tree[r].node_id : r \in LeafRefs(tree) }
               /\ Cardinality(Range(printed.ids)) = Len(printed.ids)

\* k = -1 on a tree of three levels: the line has all its Leaves
C30_Witness ==
    /\ pc = "knn_loop"
    /\ k = -1
    /\ printed.kind = "knn"
    /\ printed.count > MAX_CHILDREN_PER_NODE
    /\ pq = <<>>

=============================================================================
